---- MODULE Spec2Model ----
(***************************************************************************)
(* Model of the Politer class of politer.py: a forward-only source wrapped *)
(* with a pending buffer (a deque), a one-value rewind slot, value         *)
(* re-injection and lazy sequence queries.                                 *)
(*                                                                         *)
(* The source iterable is a finite sequence; the values it holds are the   *)
(* tokens 1..MaxVal.  Python's None, which the class uses as the           *)
(* "no previous value" marker, is the number 0 and is not a stream value   *)
(* (every Politer of the repository carries strings or TextLists).         *)
(***************************************************************************)
EXTENDS Integers, Sequences, FiniteSets, TLC

\* Bounds of the model.
MaxVal == 2          \* stream values are 1..MaxVal
MaxLen == 3          \* longest source iterable
MaxSend == 2         \* most values in one send(*values)
MaxIdx == 2          \* query arguments range over -MaxIdx..MaxIdx
MaxNodes == 3        \* Node objects of tree.py
MaxTreeOps == 5      \* calls made on the nodes
MaxStream == 4       \* longest element stream handed to translate()
MaxCount == 3        \* repeat counts are 0..MaxCount, or max_match and above
MaxLists == 2        \* TextList objects: the list rendered and the lists in it
MaxItems == 3        \* most items of one TextList

None == 0
Values == 1..MaxVal

\* Cap on len(_values) plus the values left in the source: send() is
\* called only while the politer holds fewer values than this.
MaxRemaining == MaxLen

\* Exception kinds raised by the class ("ok": the call returned).
OK == "ok"
StopIteration == "StopIteration"
IndexError == "IndexError"
ValueError == "ValueError"
RuntimeError == "RuntimeError"

VARIABLES
    generator,   \* self._generator: the values the source has not produced yet
    values,      \* self._values: the deque of pending values, front first
    previous,    \* self._previous: the last value returned, or None
    op,          \* the last operation called on the politer
    arg,         \* its arguments
    ret,         \* the value it returned (None when it raised)
    err,         \* OK, or the kind of the exception it raised
    tw,          \* the takewhile() generator in progress, if any
    remaining0,  \* ghost: the remaining values when takewhile() was called
    memo         \* ghost: one query and its answer since the last pull/send/prev

\* The variables of the Politer model.
politerVars ==
    <<generator, values, previous, op, arg, ret, err, tw, remaining0, memo>>

VARIABLES
    parent,      \* tree.py: node -> its _parent, or None
    children,    \* tree.py: node -> its children list
    treeOps      \* the number of calls made on the nodes so far

treeVars == <<parent, children, treeOps>>

VARIABLES
    elems,         \* speakregex.py: element id -> the element's text
    tree,          \* the politer over the element stream (it carries ids)
    gens,          \* the translate() generators created so far
    generatorStop, \* the interpreter turns a StopIteration that escapes a
                   \* generator body into a RuntimeError (Python 3.7-3.9)
    trOp           \* the last next() made on a translate() generator

translateVars == <<elems, tree, gens, generatorStop, trOp>>

VARIABLES
    lists,       \* speakregex.py: the TextList objects, by number
    lists0,      \* ghost: the objects as they were constructed
    rOp,         \* the last method called on TextList 1
    answer,      \* what collapsible() answered
    output       \* the lines str() joined

renderVars == <<lists, lists0, rOp, answer, output>>

\* Each specification leaves the models it is not about parked in one
\* fixed state.
TreeParked ==
    /\ parent = <<>> /\ children = <<>> /\ treeOps = 0

TranslateParked ==
    /\ elems = <<>> /\ tree = <<>> /\ gens = <<>>
    /\ generatorStop = FALSE /\ trOp = <<>>

RenderParked ==
    /\ lists = <<>> /\ lists0 = <<>> /\ rOp = "" /\ answer = FALSE
    /\ output = <<>>

\* The variables of the models other than Politer's.
others == <<treeVars, translateVars, renderVars>>

OthersParked == TreeParked /\ TranslateParked /\ RenderParked

vars == <<politerVars, others>>

\* The politer object as a record.
Self == [generator |-> generator, values |-> values, previous |-> previous]

\* All finite sequences over S of length at most n.
SeqsUpTo(S, n) == UNION {[1..k -> S] : k \in 0..n}

----------------------------------------------------------------------------
(* The methods of Politer as functions from the object to the object after *)
(* the call, the returned value and the exception kind.                    *)

Result(s, r, e) == [self |-> s, ret |-> r, err |-> e]

\* A faulty __next__ that asks the source first.
Politer_next_source_first(s) ==
    IF s.generator # <<>>
    THEN Result([s EXCEPT !.generator = Tail(@),
                          !.previous = Head(s.generator)],
                Head(s.generator), OK)
    ELSE IF s.values # <<>>
    THEN Result([s EXCEPT !.values = Tail(@), !.previous = Head(s.values)],
                Head(s.values), OK)
    ELSE Result(s, None, StopIteration)

\* Politer.__next__
Politer_next(s) ==
    IF s.values # <<>>
    THEN Result([s EXCEPT !.values = Tail(@), !.previous = Head(s.values)],
                Head(s.values), OK)
    ELSE IF s.generator # <<>>
    THEN Result([s EXCEPT !.generator = Tail(@),
                          !.previous = Head(s.generator)],
                Head(s.generator), OK)
    ELSE Result(s, None, StopIteration)

\* deque.extendleft(vs): appendleft of each element of vs in turn.
RECURSIVE extendleft(_, _)
extendleft(d, vs) ==
    IF vs = <<>> THEN d ELSE extendleft(<<Head(vs)>> \o d, Tail(vs))

\* A send that keeps the call order of its arguments.
Politer_send_call_order(s, vs) ==
    Result([s EXCEPT !.values = vs \o @], None, OK)

\* Politer.send
Politer_send(s, vs) ==
    Result([s EXCEPT !.values = extendleft(@, vs)], None, OK)

\* A faulty prev that puts the value at the far end of the deque.
Politer_prev_append(s) ==
    IF s.previous = None
    THEN Result(s, None, StopIteration)
    ELSE Result([s EXCEPT !.values = Append(@, s.previous),
                          !.previous = None], None, OK)

\* Politer.prev
Politer_prev(s) ==
    IF s.previous = None
    THEN Result(s, None, StopIteration)
    ELSE Result([s EXCEPT !.values = <<s.previous>> \o @,
                          !.previous = None], None, OK)

----------------------------------------------------------------------------
(* The lazy sequence protocol.  A condition handed to _advance_until is a  *)
(* record: the lambdas of the class are len(_values) >= n, len(_values) > n*)
(* and value in _values.                                                   *)

Range(q) == {q[k] : k \in 1..Len(q)}

LenGe(n) == [kind |-> "len_ge", n |-> n]
LenGt(n) == [kind |-> "len_gt", n |-> n]
Holds(v) == [kind |-> "contains", n |-> v]

\* The lambda c evaluated on the object s.
Cond(c, s) ==
    CASE c.kind = "len_ge" -> Len(s.values) >= c.n
      [] c.kind = "len_gt" -> Len(s.values) > c.n
      [] c.kind = "contains" -> c.n \in Range(s.values)

\* Politer._advance
Politer_advance(s) ==
    IF s.generator # <<>>
    THEN Result([s EXCEPT !.values = Append(@, Head(s.generator)),
                          !.generator = Tail(@)], TRUE, OK)
    ELSE Result(s, FALSE, OK)

\* Politer._advance_until
RECURSIVE Politer_advance_until(_, _)
Politer_advance_until(s, c) ==
    IF Cond(c, s)
    THEN Result(s, TRUE, OK)
    ELSE LET a == Politer_advance(s)
         IN  IF ~a.ret THEN Result(a.self, FALSE, OK)
             ELSE Politer_advance_until(a.self, c)

\* Politer._dump
Politer_dump(s) ==
    [s EXCEPT !.values = @ \o s.generator, !.generator = <<>>]

\* An eager at_least that dumps the source before it counts.
Politer_at_least_eager(s, n) ==
    LET d == Politer_dump(s) IN Result(d, Len(d.values) >= n, OK)

\* Politer.at_least
Politer_at_least(s, n) == Politer_advance_until(s, LenGe(n))

\* A __len__ that counts the deque without dumping the source.
Politer_len_no_dump(s) == Result(s, Len(s.values), OK)

\* Politer.__len__
Politer_len(s) ==
    LET d == Politer_dump(s) IN Result(d, Len(d.values), OK)

\* deque[i] and list[i]: a negative i counts from the end.
SeqGetitem(q, i) ==
    LET k == IF i < 0 THEN i + Len(q) ELSE i
    IN  IF k >= 0 /\ k < Len(q) THEN [ret |-> q[k + 1], err |-> OK]
        ELSE [ret |-> None, err |-> IndexError]

\* An integer index that tests len(_values) >= index, one short.
Politer_getitem_off_by_one(s, i) ==
    LET a == Politer_advance_until(s, LenGe(i))
    IN  IF ~a.ret THEN Result(a.self, None, IndexError)
        ELSE LET g == SeqGetitem(a.self.values, i)
             IN  Result(a.self, g.ret, g.err)

\* Politer.__getitem__ with an integer index
Politer_getitem(s, i) ==
    LET a == Politer_advance_until(s, LenGt(i))
    IN  IF ~a.ret THEN Result(a.self, None, IndexError)
        ELSE LET g == SeqGetitem(a.self.values, i)
             IN  Result(a.self, g.ret, g.err)

\* An optional integer: <<>> is None, <<i>> is i.
Opt(S) == {<<>>} \cup {<<i>> : i \in S}

\* list[start:stop] of Python, step 1: None, negative and out-of-range
\* positions are resolved against len(list).
SeqGetslice(q, start, stop) ==
    LET n == Len(q)
        Clamp(i) == IF i < 0 THEN (IF i + n < 0 THEN 0 ELSE i + n)
                    ELSE (IF i > n THEN n ELSE i)
        lo == IF start = <<>> THEN 0 ELSE Clamp(start[1])
        hi == IF stop = <<>> THEN n ELSE Clamp(stop[1])
    IN  SubSeq(q, lo + 1, hi)

\* Politer._getslice, reached from __getitem__ with a slice object
Politer_getslice(s, start, stop) ==
    LET b == IF start # <<>> THEN start[1] ELSE 0
        e == IF stop # <<>> THEN stop[1] ELSE -1
        a == IF b < 0 \/ e < 0 THEN Politer_dump(s)
             ELSE Politer_advance_until(s, LenGe(e)).self
    IN  Result(a, SeqGetslice(a.values, start, stop), OK)

\* Politer.__contains__
Politer_contains(s, v) == Politer_advance_until(s, Holds(v))

\* Politer.count
Politer_count(s, v) ==
    LET d == Politer_dump(s)
    IN  Result(d, Cardinality({k \in 1..Len(d.values) : d.values[k] = v}), OK)

\* Politer.index with the default i and j
Politer_index(s, v) ==
    LET d == Politer_dump(s)
        j == Len(d.values)
        hits == {k \in 1..j : d.values[k] = v}
    IN  IF hits = {} THEN Result(d, None, ValueError)
        ELSE Result(d, (CHOOSE k \in hits : \A h \in hits : k <= h) - 1, OK)

----------------------------------------------------------------------------
(* takewhile() is a generator: calling it runs nothing, and every next()   *)
(* on it runs its body up to the next yield or to its end.  t is the       *)
(* generator's frame: func is the set of values the predicate accepts,     *)
(* saved and yielded are its local and what it has yielded so far.         *)

NoTakewhile == [pc |-> "idle", name |-> "", func |-> {}, saved |-> None,
                yielded |-> <<>>, err |-> OK]

NewTakewhile(name, func) ==
    [pc |-> "running", name |-> name, func |-> func, saved |-> None,
     yielded |-> <<>>, err |-> OK]

\* The end of the body: self.prev(), then _previous = saved.  A
\* StopIteration raised by prev() inside the generator ends it silently
\* before Python 3.7 and surfaces as RuntimeError from 3.7 on: errs holds
\* both outcomes.
TakewhileEnd(s, t) ==
    LET p == Politer_prev(s)
    IN  IF p.err # OK
        THEN [self |-> p.self, tw |-> [t EXCEPT !.pc = "done"],
              ret |-> None, errs |-> {StopIteration, RuntimeError}]
        ELSE [self |-> IF t.saved # None
                       THEN [p.self EXCEPT !.previous = t.saved]
                       ELSE p.self,
              tw |-> [t EXCEPT !.pc = "done"],
              ret |-> None, errs |-> {StopIteration}]

\* itertools.takewhile, which drops the value that fails the predicate.
Politer_takewhile_itertools(s, t) ==
    LET n == Politer_next(s)
    IN  IF n.err = OK /\ n.ret \in t.func
        THEN [self |-> n.self,
              tw |-> [t EXCEPT !.yielded = Append(@, n.ret),
                               !.saved = n.ret],
              ret |-> n.ret, errs |-> {OK}]
        ELSE [self |-> n.self, tw |-> [t EXCEPT !.pc = "done"],
              ret |-> None, errs |-> {StopIteration}]

\* Politer.takewhile: one next() on the generator
Politer_takewhile(s, t) ==
    LET n == Politer_next(s)
    IN  IF n.err = OK /\ n.ret \in t.func
        THEN [self |-> n.self,
              tw |-> [t EXCEPT !.yielded = Append(@, n.ret),
                               !.saved = n.ret],
              ret |-> n.ret, errs |-> {OK}]
        ELSE TakewhileEnd(n.self, t)

----------------------------------------------------------------------------
(* Initial state and the operations.                                       *)

Init ==
    /\ generator \in SeqsUpTo(Values, MaxLen)
    /\ values = <<>>
    /\ previous = None
    /\ op = "init" /\ arg = <<>> /\ ret = None /\ err = OK
    /\ tw = NoTakewhile
    /\ remaining0 = <<>>
    /\ memo = <<>>
    /\ OthersParked

\* The object, and the outcome of the call, after a call with result r.
Becomes(name, a, r) ==
    /\ generator' = r.self.generator
    /\ values' = r.self.values
    /\ previous' = r.self.previous
    /\ op' = name /\ arg' = a /\ ret' = r.ret /\ err' = r.err

\* No takewhile() generator is being iterated: its consumer drains it
\* before it touches the politer again.
Idle == tw.pc # "running"

\* A pull, a send or a rewind: it ends the ghost's memory of the queries.
Mutation(name, a, r) ==
    /\ Idle
    /\ Becomes(name, a, r)
    /\ tw' = NoTakewhile /\ remaining0' = <<>> /\ memo' = <<>>
    /\ UNCHANGED others

\* next(politer)
DoNext == Mutation("next", <<>>, Politer_next(Self))

\* politer.send(*vs)
DoSend ==
    \E vs \in SeqsUpTo(Values, MaxSend) :
        /\ vs # <<>>
        /\ Len(values) + Len(generator) + Len(vs) <= MaxRemaining
        /\ Mutation("send", vs, Politer_send(Self, vs))

\* politer.prev()
DoPrev == Mutation("prev", <<>>, Politer_prev(Self))

Queries == {"at_least", "len", "getitem", "getslice", "contains", "count",
            "index"}

\* A query; when remember is set the ghost memo, empty since the last
\* pull, send or rewind, records it and its answer.
Query(name, a, r, remember) ==
    /\ Idle
    /\ Becomes(name, a, r)
    /\ tw' = NoTakewhile /\ remaining0' = <<>>
    /\ remember => memo = <<>>
    /\ memo' = IF remember
               THEN <<[op |-> name, arg |-> a, ret |-> r.ret, err |-> r.err]>>
               ELSE memo
    /\ UNCHANGED others

\* politer.at_least(n)
DoAtLeast(remember) ==
    \E n \in 0..MaxIdx :
        Query("at_least", <<n>>, Politer_at_least(Self, n), remember)

\* len(politer)
DoLen(remember) == Query("len", <<>>, Politer_len(Self), remember)

\* politer[i]
DoGetitem(remember) ==
    \E i \in -MaxIdx..MaxIdx :
        Query("getitem", <<i>>, Politer_getitem(Self, i), remember)

\* politer[start:stop]
DoGetslice(remember) ==
    \E start \in Opt(-MaxIdx..MaxIdx), stop \in Opt(-MaxIdx..MaxIdx) :
        Query("getslice", <<start, stop>>,
              Politer_getslice(Self, start, stop), remember)

\* v in politer
DoContains(remember) ==
    \E v \in Values :
        Query("contains", <<v>>, Politer_contains(Self, v), remember)

\* politer.count(v)
DoCount(remember) ==
    \E v \in Values : Query("count", <<v>>, Politer_count(Self, v), remember)

\* politer.index(v)
DoIndex(remember) ==
    \E v \in Values : Query("index", <<v>>, Politer_index(Self, v), remember)

\* politer.takewhile(func) and politer.takeuntil(func): the generator is
\* created, nothing of its body runs yet.
StartTakewhile(name, func, accepted) ==
    /\ Idle
    /\ tw' = NewTakewhile(name, accepted)
    /\ remaining0' = values \o generator
    /\ op' = name /\ arg' = func /\ ret' = None /\ err' = OK
    /\ memo' = <<>>
    /\ UNCHANGED <<generator, values, previous, others>>

DoTakewhile ==
    \E func \in SUBSET Values : StartTakewhile("takewhile", func, func)

\* Politer.takeuntil: takewhile(lambda x: not func(x))
DoTakeuntil ==
    \E func \in SUBSET Values :
        StartTakewhile("takeuntil", func, Values \ func)

\* next() on the takewhile generator
DoTakewhileNext ==
    /\ tw.pc = "running"
    /\ LET r == Politer_takewhile(Self, tw)
       IN  /\ generator' = r.self.generator
           /\ values' = r.self.values
           /\ previous' = r.self.previous
           /\ op' = "takewhile_next" /\ arg' = <<>> /\ ret' = r.ret
           /\ err' \in r.errs
           /\ tw' = [r.tw EXCEPT !.err = IF r.tw.pc = "done" THEN err' ELSE OK]
    /\ UNCHANGED <<remaining0, memo, others>>

Next ==
    \/ DoNext
    \/ DoSend
    \/ DoPrev
    \/ DoAtLeast(FALSE)
    \/ DoLen(FALSE)
    \/ DoGetitem(FALSE)
    \/ DoGetslice(FALSE)
    \/ DoContains(FALSE)
    \/ DoCount(FALSE)
    \/ DoIndex(FALSE)
    \/ DoTakewhile
    \/ DoTakeuntil
    \/ DoTakewhileNext

Spec == Init /\ [][Next]_vars

\* The same program with the ghost memo at work: any query may be recorded.
RememberQuery ==
    \/ DoAtLeast(TRUE)
    \/ DoLen(TRUE)
    \/ DoGetitem(TRUE)
    \/ DoGetslice(TRUE)
    \/ DoContains(TRUE)
    \/ DoCount(TRUE)
    \/ DoIndex(TRUE)

NextMemo == Next \/ RememberQuery

SpecMemo == Init /\ [][NextMemo]_vars

\* Politer.close, over a source that is a generator (as the politers of the
\* translation are): the closed generator yields nothing more, the deque is
\* replaced by an empty one, _previous is not touched.
Politer_close(s) ==
    Result([s EXCEPT !.generator = <<>>, !.values = <<>>], None, OK)

\* politer.close()
DoClose == Mutation("close", <<>>, Politer_close(Self))

NextClose == Next \/ DoClose

\* The same program, released at any time.
SpecClose == Init /\ [][NextClose]_vars

\* One next() on the generator of popped(n), which is
\* takewhile(lambda _: self.at_least(n)): the predicate ignores the value
\* pulled and asks, after the pull, whether n values are still to come.
\* a is the outcome of that at_least(n), item the value pulled.
popped_test(a, item, t) ==
    IF a.ret
    THEN [self |-> a.self,
          tw |-> [t EXCEPT !.yielded = Append(@, item), !.saved = item],
          ret |-> item, errs |-> {OK}]
    ELSE TakewhileEnd(a.self, t)

\* Politer.popped: one next() on the generator
Politer_popped(s, t, n) ==
    LET x == Politer_next(s)
    IN  IF x.err # OK THEN TakewhileEnd(x.self, t)
        ELSE popped_test(Politer_at_least(x.self, n), x.ret, t)

\* politer.popped(n): the generator is created, nothing of its body runs
\* yet.  arg keeps n while the generator is iterated.
DoPopped ==
    \E n \in 0..MaxIdx :
        /\ Idle
        /\ tw' = NewTakewhile("popped", {})
        /\ remaining0' = values \o generator
        /\ op' = "popped" /\ arg' = <<n>> /\ ret' = None /\ err' = OK
        /\ memo' = <<>>
        /\ UNCHANGED <<generator, values, previous, others>>

\* next() on the popped generator
DoPoppedNext ==
    /\ tw.pc = "running"
    /\ \E r \in {Politer_popped(Self, tw, arg[1])} :
           /\ generator' = r.self.generator
           /\ values' = r.self.values
           /\ previous' = r.self.previous
           /\ op' = "popped_next" /\ ret' = r.ret
           /\ err' \in r.errs
           /\ tw' = [r.tw EXCEPT !.err = IF r.tw.pc = "done" THEN err' ELSE OK]
    /\ UNCHANGED <<arg, remaining0, memo, others>>

\* The politer with popped() in place of takewhile() and takeuntil().
NextPopped ==
    \/ DoNext
    \/ DoSend
    \/ DoPrev
    \/ DoAtLeast(FALSE)
    \/ DoLen(FALSE)
    \/ DoPopped
    \/ DoPoppedNext

SpecPopped == Init /\ [][NextPopped]_vars

----------------------------------------------------------------------------
(* tree.py: the Node class.  A tree state t holds every node's _parent and *)
(* children list; a method gives the state after the call and the kind of  *)
(* the exception it raised, with whatever it had changed before raising.   *)

Nodes == 1..MaxNodes

TreeResult(t, e) == [t |-> t, err |-> e]

\* list.remove(x): the list without the first occurrence of x.
ListRemove(q, x) ==
    LET k == CHOOSE i \in 1..Len(q) : q[i] = x /\ \A j \in 1..(i - 1) : q[j] # x
    IN  SubSeq(q, 1, k - 1) \o SubSeq(q, k + 1, Len(q))

\* list.index(x), counted from 0.
ListIndex(q, x) ==
    (CHOOSE i \in 1..Len(q) : q[i] = x /\ \A j \in 1..(i - 1) : q[j] # x) - 1

\* list.insert(i, x), i >= 0: past the end it appends.
ListInsert(q, i, x) ==
    LET k == IF i > Len(q) THEN Len(q) ELSE i
    IN  SubSeq(q, 1, k) \o <<x>> \o SubSeq(q, k + 1, Len(q))

RECURSIVE Node_set_parent(_, _, _)
RECURSIVE Node_add(_, _, _)
RECURSIVE Node_remove(_, _, _)

\* Node.parent (setter): self.parent = node, node a Node or None
Node_set_parent(t, self, node) ==
    IF node = t.parent[self] THEN TreeResult(t, OK)
    ELSE IF node = None
    THEN LET r == IF self \in Range(t.children[t.parent[self]])
                  THEN Node_remove(t, t.parent[self], self)
                  ELSE TreeResult(t, OK)
         IN  IF r.err # OK THEN r
             ELSE TreeResult([r.t EXCEPT !.parent[self] = None], OK)
    ELSE LET r == IF t.parent[self] # None
                  THEN Node_remove(t, t.parent[self], self)
                  ELSE TreeResult(t, OK)
         IN  IF r.err # OK THEN r
             ELSE Node_add([r.t EXCEPT !.parent[self] = node], node, self)

\* Node.add
Node_add(t, self, node) ==
    LET t1 == IF node \notin Range(t.children[self])
              THEN [t EXCEPT !.children[self] = Append(@, node)]
              ELSE t
    IN  Node_set_parent(t1, node, self)

\* Node.remove
Node_remove(t, self, node) ==
    IF node \notin Range(t.children[self])
    THEN TreeResult(t, ValueError)
    ELSE Node_set_parent(
             [t EXCEPT !.children[self] = ListRemove(@, node)], node, None)

\* Node.detach
Node_detach(t, self) == Node_set_parent(t, self, None)

\* Node.replace
Node_replace(t, self, child, adoptee) ==
    IF child \notin Range(t.children[self])
    THEN TreeResult(t, ValueError)
    ELSE LET age == ListIndex(t.children[self], child)
             r == Node_set_parent(t, child, None)
         IN  IF r.err # OK THEN r
             ELSE Node_set_parent(
                      [r.t EXCEPT !.children[self] =
                                      ListInsert(@, age, adoptee)],
                      adoptee, self)

\* The tree as a record.
Tree == [parent |-> parent, children |-> children]

\* The politer model parked: an empty, untouched politer.
PoliterParked ==
    /\ generator = <<>> /\ values = <<>> /\ previous = None
    /\ op = "init" /\ arg = <<>> /\ ret = None /\ err = OK
    /\ tw = NoTakewhile /\ remaining0 = <<>> /\ memo = <<>>

\* Node(): MaxNodes fresh nodes, no parent, no children.
TreeInit ==
    /\ parent = [n \in Nodes |-> None]
    /\ children = [n \in Nodes |-> <<>>]
    /\ treeOps = 0
    /\ PoliterParked /\ TranslateParked /\ RenderParked

\* The tree after a call with result r.
TreeBecomes(r) ==
    /\ treeOps < MaxTreeOps
    /\ treeOps' = treeOps + 1
    /\ parent' = r.t.parent
    /\ children' = r.t.children
    /\ UNCHANGED <<politerVars, translateVars, renderVars>>

\* p.add(c)
DoAdd == \E p \in Nodes, c \in Nodes : TreeBecomes(Node_add(Tree, p, c))

\* p.remove(c)
DoRemove == \E p \in Nodes, c \in Nodes : TreeBecomes(Node_remove(Tree, p, c))

\* x.detach()
DoDetach == \E x \in Nodes : TreeBecomes(Node_detach(Tree, x))

\* p.replace(c, a)
DoReplace ==
    \E p \in Nodes, c \in Nodes, a \in Nodes :
        TreeBecomes(Node_replace(Tree, p, c, a))

\* x.parent = p
DoSetParent ==
    \E x \in Nodes, p \in Nodes \cup {None} :
        TreeBecomes(Node_set_parent(Tree, x, p))

TreeNext ==
    \/ DoAdd
    \/ DoRemove
    \/ DoDetach
    \/ DoReplace
    \/ DoSetParent

TreeSpec == TreeInit /\ [][TreeNext]_vars

\* The nodes reached from x by following _parent at least once.
RECURSIVE Up(_, _, _)
Up(par, x, fuel) ==
    IF fuel = 0 \/ par[x] = None THEN {}
    ELSE {par[x]} \cup Up(par, par[x], fuel - 1)

Ancestors(x) == Up(parent, x, MaxNodes)

Occurrences(q, x) == Cardinality({k \in 1..Len(q) : q[k] = x})

\* C11 as stated: after any add, remove, detach, replace and parent
\* assignment, no node is its own ancestor.
C11_Acyclic == \A x \in DOMAIN parent : x \notin Ancestors(x)

\* C12 as stated: parent and children agree: c is in p.children exactly
\* when c.parent is p, it is there once, and no node is in the children
\* lists of two nodes.
C12_ParentChildrenAgree ==
    \A p \in DOMAIN children, c \in DOMAIN parent :
        /\ (c \in Range(children[p])) <=> (parent[c] = p)
        /\ Occurrences(children[p], c) <= 1
        /\ \A q \in DOMAIN children :
               (c \in Range(children[p]) /\ c \in Range(children[q])) => p = q

----------------------------------------------------------------------------
(* speakregex.py: the translation engine.  The element stream is a politer *)
(* of element ids and elems gives the text of each element, so that the    *)
(* two 'end_grouping 0' of a stream are two elements.  Element texts are   *)
(* what the compiler's trace holds: a kind and its fields, separated by    *)
(* single spaces, numbers in unsigned decimal, ordinals in 32..126.        *)
(*                                                                         *)
(* A fragment is a string or a TextList; both are records here.  A         *)
(* translate() generator is a frame of gens; a TextList's data is the      *)
(* index of the generator it lists.                                        *)
(***************************************************************************)

\* Exception kinds raised by the translation functions.
TypeError == "TypeError"
KeyError == "KeyError"

\* speakregex.py:12
max_match == 2 * (2 ^ 15)

special_characters ==
    ("7" :> "the alert character") @@ ("8" :> "a backspace")
    @@ ("9" :> "a tab character") @@ ("10" :> "a newline")
    @@ ("32" :> "a space") @@ ("34" :> "a quotation mark")
    @@ ("92" :> "a backslash")

unusual_characters ==
    ("36" :> "a dollar sign") @@ ("39" :> "an apostrophe")
    @@ ("40" :> "a left parenthesis") @@ ("41" :> "a right parenthesis")
    @@ ("44" :> "a comma") @@ ("59" :> "a semicolon")
    @@ ("60" :> "a less than sign") @@ ("61" :> "an equals sign")
    @@ ("62" :> "a greater than sign") @@ ("95" :> "an underscore")
    @@ ("124" :> "a vertical bar")

categories ==
    ("category_word" :> "any alphanumeric character or underscore")
    @@ ("category_space" :> "any whitespace character")
    @@ ("category_not_space" :> "any non-whitespace character")
    @@ ("category_not_word" :> "any non-alphanumeric character")
    @@ ("category_digit" :> "any digit")
    @@ ("category_not_digit" :> "any non-digit character")

opposed_categories ==
    ("category_word" :> "category_not_word")
    @@ ("category_space" :> "category_not_space")
    @@ ("category_digit" :> "category_not_digit")

\* {categories[k]: categories[v]}, then updated with its own inverse
category_complements ==
    LET forward ==
            [x \in {categories[k] : k \in DOMAIN opposed_categories} |->
                categories[opposed_categories[
                    CHOOSE k \in DOMAIN opposed_categories :
                        categories[k] = x]]]
        inverse ==
            [y \in {forward[x] : x \in DOMAIN forward} |->
                CHOOSE x \in DOMAIN forward : forward[x] = y]
    IN  inverse @@ forward

locations ==
    ("at_beginning" :> "the beginning of a line")
    @@ ("at_end" :> "the end of the line")
    @@ ("at_boundary" :> "the beginning or end of a word")
    @@ ("at_non_boundary" :> "(if not at the beginning or end of a word)")
    @@ ("at_beginning_string" :> "the beginning of the string")
    @@ ("at_end_string" :> "the end of the string")

\* The printable characters: chr(32)..chr(95) and chr(97)..chr(126).  The
\* grave accent, chr(96), cannot be written in a string of this language
\* and no element of the model carries it.
AsciiLow ==
    " !\"#$%&'()*+,-./0123456789:;<=>?@ABCDEFGHIJKLMNOPQRSTUVWXYZ[\\]^_"

AsciiHigh == "abcdefghijklmnopqrstuvwxyz{|}~"

\* chr(n), for the ordinals 32..126 other than 96
chr(n) ==
    IF n < 96 THEN SubSeq(AsciiLow, n - 31, n - 31)
    ELSE SubSeq(AsciiHigh, n - 96, n - 96)

IsDigit(c) == \E d \in 0..9 : ToString(d) = c

RECURSIVE int_from(_, _, _)
int_from(s, i, n) ==
    IF i > Len(s) THEN n
    ELSE int_from(s, i + 1,
                  10 * n + (CHOOSE d \in 0..9 : ToString(d) = SubSeq(s, i, i)))

\* int(s), for an unsigned decimal s
int(s) == int_from(s, 1, 0)

\* str.split(): the words of s, a word being a run of non-blanks
RECURSIVE split_from(_, _, _, _)
split_from(s, i, word, words) ==
    IF i > Len(s)
    THEN IF word = "" THEN words ELSE Append(words, word)
    ELSE IF SubSeq(s, i, i) = " "
    THEN split_from(s, i + 1, "",
                    IF word = "" THEN words ELSE Append(words, word))
    ELSE split_from(s, i + 1, word \o SubSeq(s, i, i), words)

split(s) == split_from(s, 1, "", <<>>)

\* re.findall(r'[0-9]+', s)[0]: the first run of digits of s
RECURSIVE first_digits(_, _, _)
first_digits(s, i, run) ==
    IF i > Len(s) THEN run
    ELSE IF IsDigit(SubSeq(s, i, i))
    THEN first_digits(s, i + 1, run \o SubSeq(s, i, i))
    ELSE IF run = "" THEN first_digits(s, i + 1, run) ELSE run

\* ''.join(words)
RECURSIVE concat(_)
concat(words) ==
    IF words = <<>> THEN "" ELSE Head(words) \o concat(Tail(words))

\* sep.join(words)
RECURSIVE join(_, _)
join(sep, words) ==
    IF words = <<>> THEN ""
    ELSE IF Len(words) = 1 THEN Head(words)
    ELSE Head(words) \o sep \o join(sep, Tail(words))

concat_if(first, rest) == IF first = "" THEN "" ELSE first \o rest

quoted(string) == "\"" \o string \o "\""

lookup_char(text_ordinal, checkdicts, longform) ==
    IF checkdicts /\ text_ordinal \in DOMAIN special_characters
    THEN special_characters[text_ordinal]
    ELSE IF checkdicts /\ text_ordinal \in DOMAIN unusual_characters
    THEN unusual_characters[text_ordinal]
    ELSE IF ~longform THEN chr(int(text_ordinal))
    ELSE "the character " \o quoted(chr(int(text_ordinal)))

\* quoted_chars(ordinals): the list of the quoted characters
quoted_chars(ordinals) ==
    [i \in 1..Len(ordinals) |-> quoted(lookup_char(ordinals[i], FALSE, FALSE))]

\* quoted_chars(ordinals, concatenate=True)
quoted_chars_concatenate(ordinals) ==
    quoted(concat([i \in 1..Len(ordinals) |->
                       lookup_char(ordinals[i], FALSE, FALSE)]))

\* str(InlineList(items, coord=coord)) for a list of strings: the list is
\* collapsed, popped() gives all its items but the last and pop() the last.
InlineList_str(items, coord) ==
    LET c == concat_if(coord, " ")
        n == Len(items)
    IN  IF n < 2 THEN items[1]
        ELSE IF n < 3 THEN items[1] \o " " \o c \o items[2]
        ELSE join(", ", SubSeq(items, 1, n - 1)) \o " " \o c \o items[n]

\* A fragment that is a string.
Str(s) ==
    [list |-> FALSE, text |-> s, data |-> 0,
     intro |-> "", outro |-> "", subord |-> "", coord |-> ""]

\* TextList.__init__ over the translate() generator data
TextList(data, intro, outro, subord, coord) ==
    [list |-> TRUE, text |-> "", data |-> data,
     intro |-> intro, outro |-> outro,
     subord |-> concat_if(subord, " "), coord |-> concat_if(coord, " ")]

\* The value of a call that raised.
NoFragment == Str("")

\* translate(tree, delegate): the generator object, nothing of its body has
\* run.  start is the start marker whose block it was created for (0: the
\* top level), items the elements its loop has taken, out what it yielded.
NewTranslate(delegate, start) ==
    [pc |-> "running", delegate |-> delegate, start |-> start,
     items |-> <<>>, out |-> <<>>]

\* The outcome of a translation function: the state after it, what it
\* returned and the kind of the exception it raised.
TrResult(t, r, e) == [t |-> t, ret |-> r, err |-> e]

\* The keys of the translation dictionary.
translation ==
    {"max_repeat", "min_repeat", "literal", "not_literal", "in", "category",
     "end_grouping", "start_grouping", "subpattern", "groupref", "any",
     "assert", "assert_not", "at", "branch", "or", "range",
     "groupref_exists"}

RECURSIVE translate_next(_, _)

\* start_grouping(tree, delegate): the value is the new generator
start_grouping(t, delegate) ==
    LET p == Politer_next(t.tree)
        t1 == [t EXCEPT !.tree = p.self]
    IN  IF p.err # OK THEN TrResult(t1, 0, StopIteration)
        ELSE IF t.elems[p.ret] # "start_grouping 0"
        THEN TrResult(t1, 0, ValueError)
        ELSE TrResult([t1 EXCEPT !.gens =
                                     Append(@, NewTranslate(delegate, p.ret))],
                      Len(t.gens) + 1, OK)

\* A lead-in chosen with the min == 0 rule ahead of the max_match rule.
repeat_leadin_min_zero_first(kind, min, max) ==
    LET greed == IF kind = "min_repeat" THEN " (non-greedy)" ELSE ""
    IN  IF min = max
        THEN IF min = 1 THEN ""
             ELSE ToString(min) \o " occurrences of"
        ELSE IF min = 0
        THEN IF max = 1
             THEN "up to " \o ToString(max) \o greed \o " occurrence of"
             ELSE "up to " \o ToString(max) \o greed \o " occurrences of"
        ELSE IF max >= max_match
        THEN ToString(min) \o " or more" \o greed \o " occurrences of"
        ELSE "between " \o ToString(min) \o " and " \o ToString(max)
                 \o greed \o " occurrences of"

\* The lead-in regex_repeat chooses ("": the child is returned unwrapped).
repeat_leadin(kind, min, max) ==
    LET greed == IF kind = "min_repeat" THEN " (non-greedy)" ELSE ""
    IN  IF min = max
        THEN IF min = 1 THEN ""
             ELSE ToString(min) \o " occurrences of"
        ELSE IF max >= max_match
        THEN ToString(min) \o " or more" \o greed \o " occurrences of"
        ELSE IF min = 0
        THEN IF max = 1
             THEN "up to " \o ToString(max) \o greed \o " occurrence of"
             ELSE "up to " \o ToString(max) \o greed \o " occurrences of"
        ELSE "between " \o ToString(min) \o " and " \o ToString(max)
                 \o greed \o " occurrences of"

\* regex_repeat: sg is what start_grouping(tree) gave
regex_repeat_subset(sg, kind, min, max) ==
    IF sg.err # OK THEN TrResult(sg.t, NoFragment, sg.err)
    ELSE IF min = max /\ min = 1
    THEN translate_next(sg.t, sg.ret)
    ELSE TrResult(sg.t,
                  TextList(sg.ret, repeat_leadin(kind, min, max), "", "", ""),
                  OK)

regex_repeat(lexemes, t, delegate) ==
    regex_repeat_subset(start_grouping(t, "None"), lexemes[1],
                        int(lexemes[2]), int(lexemes[3]))

\* A collect_literals that does not send back the element that stops it.
RECURSIVE collect_literals_no_send(_, _)
collect_literals_no_send(t, literals) ==
    LET p == Politer_next(t.tree)
        lexemes == split(t.elems[p.ret])
    IN  IF \/ p.err # OK
           \/ Len(lexemes) < 2
           \/ lexemes[1] # "literal"
           \/ lexemes[2] \in DOMAIN special_characters
        THEN [t |-> [t EXCEPT !.tree = p.self], literals |-> literals]
        ELSE collect_literals_no_send([t EXCEPT !.tree = p.self],
                                      Append(literals, lexemes[2]))

\* list(collect_literals(tree)): the ordinals yielded, and the tree after
RECURSIVE collect_literals(_, _)
collect_literals(t, literals) ==
    LET p == Politer_next(t.tree)
        item == p.ret
        lexemes == split(t.elems[item])
    IN  IF p.err # OK THEN [t |-> [t EXCEPT !.tree = p.self],
                            literals |-> literals]
        ELSE IF \/ Len(lexemes) < 2
                \/ lexemes[1] # "literal"
                \/ lexemes[2] \in DOMAIN special_characters
        THEN [t |-> [t EXCEPT !.tree = Politer_send(p.self, <<item>>).self],
              literals |-> literals]
        ELSE collect_literals([t EXCEPT !.tree = p.self],
                              Append(literals, lexemes[2]))

\* A regex_literal that gives a single literal of a set as the bare quoted
\* character.
regex_literal_set_bare(lexemes, t, delegate) ==
    LET c == IF lexemes[2] \notin DOMAIN special_characters
             THEN collect_literals(t, <<lexemes[2]>>)
             ELSE [t |-> t, literals |-> <<lexemes[2]>>]
    IN  IF Len(c.literals) = 1
        THEN IF delegate = "set"
             THEN TrResult(c.t, Str(quoted_chars(c.literals)[1]), OK)
             ELSE TrResult(c.t, Str(lookup_char(c.literals[1], TRUE, TRUE)),
                           OK)
        ELSE IF delegate = "set"
        THEN TrResult(c.t,
                      Str("a "
                              \o InlineList_str(quoted_chars(c.literals), "or")
                              \o " character"),
                      OK)
        ELSE TrResult(c.t,
                      Str("the characters "
                              \o quoted_chars_concatenate(c.literals)),
                      OK)

regex_literal(lexemes, t, delegate) ==
    LET c == IF lexemes[2] \notin DOMAIN special_characters
             THEN collect_literals(t, <<lexemes[2]>>)
             ELSE [t |-> t, literals |-> <<lexemes[2]>>]
        literals == c.literals
    IN  IF Len(literals) = 1
        THEN TrResult(c.t, Str(lookup_char(literals[1], TRUE, TRUE)), OK)
        ELSE IF delegate = "set"
        THEN TrResult(c.t,
                      Str("a " \o InlineList_str(quoted_chars(literals), "or")
                              \o " character"),
                      OK)
        ELSE TrResult(c.t,
                      Str("the characters "
                              \o quoted_chars_concatenate(literals)),
                      OK)

RECURSIVE translate_at_least(_, _, _)

\* Politer._advance on the politer of generator g: r is what next() on the
\* generator gave.
translate_advance(r, g, n) ==
    IF r.err = StopIteration THEN TrResult(r.t, FALSE, OK)
    ELSE IF r.err # OK THEN TrResult(r.t, FALSE, r.err)
    ELSE translate_at_least(r.t, g, n)

\* set_items.at_least(n) on the politer of generator g, none of whose
\* values has been taken: the generator is advanced until it has yielded n
\* values or is exhausted.
translate_at_least(t, g, n) ==
    IF Len(t.gens[g].out) >= n THEN TrResult(t, TRUE, OK)
    ELSE translate_advance(translate_next(t, g), g, n)

\* regex_in: al is what set_items.at_least(2) gave
regex_in_at_least(al, set_items, complement) ==
    LET intro == IF complement THEN "any character except " ELSE ""
        out == al.t.gens[set_items].out
        item == out[1]
    IN  IF al.err # OK THEN TrResult(al.t, NoFragment, al.err)
        ELSE IF ~al.ret
        THEN IF out = <<>> THEN TrResult(al.t, NoFragment, IndexError)
             ELSE IF item.list THEN TrResult(al.t, NoFragment, TypeError)
             ELSE IF complement /\ item.text \in DOMAIN category_complements
             THEN TrResult(al.t, Str(category_complements[item.text]), OK)
             ELSE TrResult(al.t, Str(intro \o item.text), OK)
        ELSE TrResult(al.t,
                      TextList(set_items, intro \o "one of the following",
                               "", "", "or"),
                      OK)

\* regex_in: p is what next(tree) gave
regex_in_next(p, sg) ==
    LET complement == sg.t.elems[p.ret] = "negate None"
    IN  IF p.err # OK
        THEN TrResult([sg.t EXCEPT !.tree = p.self], NoFragment,
                      StopIteration)
        ELSE regex_in_at_least(
                 translate_at_least(
                     [sg.t EXCEPT !.tree = IF complement THEN p.self
                                           ELSE Politer_prev(p.self).self],
                     sg.ret, 2),
                 sg.ret, complement)

\* regex_in: sg is what start_grouping(tree, delegate='set') gave
regex_in_set_items(sg) ==
    IF sg.err # OK THEN TrResult(sg.t, NoFragment, sg.err)
    ELSE regex_in_next(Politer_next(sg.t.tree), sg)

regex_in(lexemes, t, delegate) == regex_in_set_items(start_grouping(t, "set"))

\* A regex_not_literal that sends the fake elements in the order of the
\* block they stand for.
regex_not_literal_block_order(lexemes, t, delegate) ==
    LET fake_elements == <<"start_grouping 0", "negate None",
                           "literal " \o lexemes[2], "end_grouping 0">>
        n == Len(t.elems)
        ids == [i \in 1..4 |-> n + i]
    IN  regex_in(<<"in">>,
                 [t EXCEPT !.elems = @ \o fake_elements,
                           !.tree = Politer_send(@, ids).self],
                 delegate)

\* The fake elements get the ids after those of the stream.
regex_not_literal(lexemes, t, delegate) ==
    LET fake_elements == <<"end_grouping 0", "literal " \o lexemes[2],
                           "negate None", "start_grouping 0">>
        n == Len(t.elems)
        ids == [i \in 1..4 |-> n + i]
    IN  regex_in(<<"in">>,
                 [t EXCEPT !.elems = @ \o fake_elements,
                           !.tree = Politer_send(@, ids).self],
                 delegate)

regex_category(lexemes, t, delegate) ==
    LET cat_type == lexemes[2]
    IN  TrResult(t,
                 Str(IF cat_type \in DOMAIN categories
                     THEN categories[cat_type]
                     ELSE "an unknown category: " \o cat_type),
                 OK)

regex_groupref_exists(lexemes, t, delegate) ==
    LET sg == start_grouping(t, "None")
    IN  IF sg.err # OK THEN TrResult(sg.t, NoFragment, sg.err)
        ELSE TrResult(sg.t,
                      TextList(sg.ret,
                               "the subgroup (only if group #" \o lexemes[2]
                                   \o " was found earlier)",
                               "", "", ""),
                      OK)

\* regex_subpattern with no pattern name: p is what next(tree) gave
regex_subpattern_next(p, sg, delegate) ==
    LET t1 == [sg.t EXCEPT !.tree = p.self]
        next_lexemes == split(sg.t.elems[p.ret])
    IN  IF p.err # OK THEN TrResult(t1, NoFragment, StopIteration)
        ELSE IF next_lexemes = <<>>
        THEN TrResult(t1, NoFragment, IndexError)
        ELSE IF next_lexemes[1] = "groupref_exists"
        THEN regex_groupref_exists(next_lexemes, t1, delegate)
        ELSE TrResult([t1 EXCEPT !.tree = Politer_prev(@).self],
                      TextList(sg.ret,
                               "a non-captured subgroup consisting of",
                               "", "", ""),
                      OK)

\* regex_subpattern: sg is what start_grouping(tree) gave
regex_subpattern_group(sg, pattern_name, delegate) ==
    IF sg.err # OK THEN TrResult(sg.t, NoFragment, sg.err)
    ELSE IF pattern_name = "None"
    THEN regex_subpattern_next(Politer_next(sg.t.tree), sg, delegate)
    ELSE TrResult(sg.t,
                  TextList(sg.ret,
                           "subgroup #" \o pattern_name \o ", consisting of",
                           "", "", ""),
                  OK)

regex_subpattern(lexemes, t, delegate) ==
    regex_subpattern_group(start_grouping(t, "None"), lexemes[2], delegate)

regex_groupref(lexemes, t, delegate) ==
    TrResult(t, Str("subgroup #" \o lexemes[2] \o " again"), OK)

regex_any(lexemes, t, delegate) == TrResult(t, Str("any character"), OK)

regex_assert(lexemes, t, delegate) ==
    LET sg == start_grouping(t, "None")
        positive == lexemes[1] = "assert"
        lookahead == lexemes[2] = "1"
        positivity == IF positive THEN "" ELSE "not "
        assertion == IF lookahead
                     THEN "(if we could " \o positivity \o "now match"
                     ELSE "(if we could " \o positivity
                              \o "have just matched"
    IN  IF sg.err # OK THEN TrResult(sg.t, NoFragment, sg.err)
        ELSE TrResult(sg.t, TextList(sg.ret, assertion, ")", "", ""), OK)

regex_branch(lexemes, t, delegate) ==
    LET leadin == IF lexemes[1] = "branch" THEN "either" ELSE "or"
        sg == start_grouping(t, "None")
    IN  IF sg.err # OK THEN TrResult(sg.t, NoFragment, sg.err)
        ELSE TrResult(sg.t, TextList(sg.ret, leadin, "", "", ""), OK)

regex_at(lexemes, t, delegate) ==
    LET location == lexemes[2]
    IN  TrResult(t,
                 Str(IF location \in DOMAIN locations
                     THEN locations[location]
                     ELSE "an unknown location: " \o location),
                 OK)

regex_range(lexemes, t, delegate) ==
    LET range_limits ==
            quoted_chars(<<first_digits(lexemes[2], 1, ""),
                           first_digits(lexemes[3], 1, "")>>)
    IN  TrResult(t,
                 Str("a character between " \o range_limits[1] \o " and "
                         \o range_limits[2]),
                 OK)

\* The loop of unexpected_start_grouping: the elements read before the
\* first 'end_grouping 0', or before the end of the stream.
RECURSIVE skipped_elements(_, _)
skipped_elements(t, elements) ==
    LET p == Politer_next(t.tree)
        t1 == [t EXCEPT !.tree = p.self]
    IN  IF p.err # OK \/ t.elems[p.ret] = "end_grouping 0"
        THEN [t |-> t1, elements |-> elements]
        ELSE skipped_elements(t1, Append(elements, p.ret))

unexpected_start_grouping(lexemes, t, delegate) ==
    LET s == skipped_elements(t, <<>>)
    IN  TrResult([s.t EXCEPT !.tree = Politer_send(@, s.elements).self],
                 Str("(warning, some elements may not appear correctly grouped)"),
                 OK)

end_grouping(lexemes, t, delegate) == TrResult(t, NoFragment, StopIteration)

\* translation[lexemes[0]](lexemes, tree, delegate)
dispatch(lexemes, t, delegate) ==
    CASE lexemes[1] \in {"max_repeat", "min_repeat"} ->
             regex_repeat(lexemes, t, delegate)
      [] lexemes[1] = "literal" -> regex_literal(lexemes, t, delegate)
      [] lexemes[1] = "not_literal" -> regex_not_literal(lexemes, t, delegate)
      [] lexemes[1] = "in" -> regex_in(lexemes, t, delegate)
      [] lexemes[1] = "category" -> regex_category(lexemes, t, delegate)
      [] lexemes[1] = "end_grouping" -> end_grouping(lexemes, t, delegate)
      [] lexemes[1] = "start_grouping" ->
             unexpected_start_grouping(lexemes, t, delegate)
      [] lexemes[1] = "subpattern" -> regex_subpattern(lexemes, t, delegate)
      [] lexemes[1] = "groupref" -> regex_groupref(lexemes, t, delegate)
      [] lexemes[1] = "any" -> regex_any(lexemes, t, delegate)
      [] lexemes[1] \in {"assert", "assert_not"} ->
             regex_assert(lexemes, t, delegate)
      [] lexemes[1] = "at" -> regex_at(lexemes, t, delegate)
      [] lexemes[1] \in {"branch", "or"} -> regex_branch(lexemes, t, delegate)
      [] lexemes[1] = "range" -> regex_range(lexemes, t, delegate)
      [] lexemes[1] = "groupref_exists" ->
             regex_groupref_exists(lexemes, t, delegate)

\* The generator g leaves its body: by returning (its caller sees
\* StopIteration) or with the exception e.  A StopIteration raised inside
\* the body ends the generator silently up to Python 3.6 and is a
\* RuntimeError from Python 3.7 (PEP 479).
translate_ends(t, g, e) ==
    LET raised == IF e = StopIteration /\ t.generatorStop
                  THEN RuntimeError ELSE e
    IN  TrResult([t EXCEPT !.gens[g].pc = IF raised = StopIteration
                                          THEN "done" ELSE "raised"],
                 NoFragment, raised)

\* The generator g yields fragment.
translate_yield(t, g, fragment) ==
    TrResult([t EXCEPT !.gens[g].out = Append(@, fragment)], fragment, OK)

\* A translate() without the except clause: the KeyError leaves the body.
translate_KeyError_raised(t, g, item) == translate_ends(t, g, KeyError)

\* except KeyError: the kind of item is not a key of the dictionary
translate_KeyError(t, g, item) ==
    translate_yield(t, g,
                    Str("something I don't understand: " \o t.elems[item]))

\* translate: yield dispatch(lexemes, tree, delegate), r what the call gave
translate_dispatched(r, g) ==
    IF r.err # OK THEN translate_ends(r.t, g, r.err)
    ELSE translate_yield(r.t, g, r.ret)

\* translate: the body of the loop for item
translate_item(lexemes, t1, g, item) ==
    IF lexemes = <<>> THEN translate_ends(t1, g, IndexError)
    ELSE IF lexemes[1] \notin translation
    THEN translate_KeyError(t1, g, item)
    ELSE translate_dispatched(dispatch(lexemes, t1, t1.gens[g].delegate), g)

\* A loop that does not end when the stream is exhausted.
translate_for_no_end(p, t, g) ==
    IF p.err # OK
    THEN TrResult([t EXCEPT !.tree = p.self], NoFragment, StopIteration)
    ELSE translate_item(split(t.elems[p.ret]),
                        [t EXCEPT !.tree = p.self,
                                  !.gens[g].items = Append(@, p.ret)],
                        g, p.ret)

\* translate: for item in tree, p what next(tree) gave
translate_for(p, t, g) ==
    IF p.err # OK
    THEN TrResult([t EXCEPT !.tree = p.self, !.gens[g].pc = "done"],
                  NoFragment, StopIteration)
    ELSE translate_item(split(t.elems[p.ret]),
                        [t EXCEPT !.tree = p.self,
                                  !.gens[g].items = Append(@, p.ret)],
                        g, p.ret)

\* next() on the translate() generator g: its body runs up to the next
\* yield, or to its end.
translate_next(t, g) ==
    IF t.gens[g].pc # "running" THEN TrResult(t, NoFragment, StopIteration)
    ELSE translate_for(Politer_next(t.tree), t, g)

\* The translation state as a record.
Translation ==
    [elems |-> elems, tree |-> tree, gens |-> gens,
     generatorStop |-> generatorStop]

\* tree = get_parse_tree(...); translation = translate(tree)
TranslateStart(stream) ==
    /\ elems = stream
    /\ tree = [generator |-> [i \in 1..Len(stream) |-> i],
               values |-> <<>>, previous |-> None]
    /\ gens = <<NewTranslate("None", 0)>>
    /\ generatorStop \in BOOLEAN
    /\ trOp = [gen |-> 0, item |-> 0, ret |-> NoFragment, err |-> OK]
    /\ PoliterParked /\ TreeParked /\ RenderParked

\* Elements of a stream that need not be well formed.
Elements ==
    {"literal 97", "literal 98", "literal 32", "any None", "bogus 1",
     "max_repeat 2 4",
     "start_grouping 0", "end_grouping 0"}

TranslateInit == \E stream \in SeqsUpTo(Elements, MaxStream) :
                     TranslateStart(stream)

\* next() on one of the generators: the renderer, or any other consumer of
\* the fragments, advances the outer and the nested generators in the order
\* it likes.
TranslateNext ==
    \E g \in DOMAIN gens :
        /\ gens[g].pc = "running"
        /\ \E r \in {translate_next(Translation, g)} :
               /\ elems' = r.t.elems
               /\ tree' = r.t.tree
               /\ gens' = r.t.gens
               /\ trOp' = [gen |-> g,
                           item |-> IF Len(r.t.gens[g].items)
                                           > Len(gens[g].items)
                                    THEN r.t.gens[g].items[Len(gens[g].items) + 1]
                                    ELSE 0,
                           ret |-> r.ret, err |-> r.err]
        /\ UNCHANGED <<generatorStop, politerVars, treeVars, renderVars>>

TranslateSpec == TranslateInit /\ [][TranslateNext]_vars

\* The counts of a repeat element: small ones, and the compiler's
\* "no upper limit".
RepeatCounts == 0..MaxCount \cup {max_match, max_match + 1}

\* A quantifier over one element: every kind, min and max.
TranslateRepeatInit ==
    \E kind \in {"max_repeat", "min_repeat"}, min, max \in RepeatCounts,
       child \in {"any None", "literal 97"} :
        TranslateStart(<<kind \o " " \o ToString(min) \o " " \o ToString(max),
                         "start_grouping 0", child, "end_grouping 0">>)

TranslateRepeatSpec == TranslateRepeatInit /\ [][TranslateNext]_vars

\* The kind of an element: item.split()[0]
Kind(item) == split(item)[1]

\* The kinds whose translation function calls start_grouping.
ExpectsBlock(item) ==
    Kind(item) \in {"max_repeat", "min_repeat", "in", "subpattern", "assert",
                    "assert_not", "branch", "or", "groupref_exists"}

\* The indentation of the trace below element i: the start markers less the
\* end markers among the elements 1..i.
Depth(stream, i) ==
    Cardinality({j \in 1..i : stream[j] = "start_grouping 0"})
        - Cardinality({j \in 1..i : stream[j] = "end_grouping 0"})

\* A stream as get_parse_tree flattens a trace, every group closed: a start
\* marker follows each element that has a subgroup and nothing else, the
\* markers are balanced, and a negation is the first line below an 'in'.
WellFormed(stream) ==
    /\ \A i \in DOMAIN stream : Depth(stream, i) >= 0
    /\ Depth(stream, Len(stream)) = 0
    /\ \A i \in DOMAIN stream :
           /\ ExpectsBlock(stream[i]) <=>
                  (i < Len(stream) /\ stream[i + 1] = "start_grouping 0")
           /\ stream[i] = "negate None" =>
                  (i > 2 /\ Kind(stream[i - 2]) = "in")

\* Elements of the well-formed streams: each kind that has a subgroup.
BlockElements ==
    {"any None", "literal 97", "negate None", "start_grouping 0",
     "end_grouping 0", "max_repeat 2 4", "max_repeat 1 1", "in",
     "subpattern None", "subpattern 1", "assert 1", "branch",
     "groupref_exists 1"}

TranslateBlocksInit ==
    \E stream \in SeqsUpTo(BlockElements, MaxStream) :
        WellFormed(stream) /\ TranslateStart(stream)

TranslateBlocksSpec == TranslateBlocksInit /\ [][TranslateNext]_vars

\* translation = translate(tree, delegate), as start_grouping creates it at
\* the first element of a block
TranslateStartAs(stream, delegate) ==
    /\ elems = stream
    /\ tree = [generator |-> [i \in 1..Len(stream) |-> i],
               values |-> <<>>, previous |-> None]
    /\ gens = <<NewTranslate(delegate, 0)>>
    /\ generatorStop \in BOOLEAN
    /\ trOp = [gen |-> 0, item |-> 0, ret |-> NoFragment, err |-> OK]
    /\ PoliterParked /\ TreeParked /\ RenderParked

\* Elements of the block of a character class, and what follows it.
SetElements ==
    {"literal 97", "literal 98", "literal 36", "literal 32",
     "category category_digit", "end_grouping 0"}

\* The block of a character class ('set') or of any other element (None).
TranslateSetInit ==
    \E stream \in SeqsUpTo(SetElements, MaxStream),
       delegate \in {"None", "set"} :
        TranslateStartAs(stream, delegate)

TranslateSetSpec == TranslateSetInit /\ [][TranslateNext]_vars

\* Elements of the streams with a one-character set complement, alone, in
\* a character class and after a stray marker.
NotLiteralElements ==
    {"not_literal 97", "not_literal 32", "literal 98", "in",
     "start_grouping 0", "end_grouping 0"}

TranslateNotLiteralInit ==
    \E stream \in SeqsUpTo(NotLiteralElements, MaxStream) :
        TranslateStart(stream)

TranslateNotLiteralSpec == TranslateNotLiteralInit /\ [][TranslateNext]_vars

\* Elements of the streams with start markers that no element expects,
\* with and without an end marker behind them.
RepairElements ==
    {"literal 97", "in", "max_repeat 2 4", "start_grouping 0",
     "end_grouping 0"}

TranslateRepairInit ==
    \E stream \in SeqsUpTo(RepairElements, MaxStream) :
        TranslateStart(stream)

\* next() on some running generator changes the stream or the generators:
\* a step of TranslateNext that is not a stuttering step can be taken.
CanAdvance ==
    \E g \in DOMAIN gens :
        /\ gens[g].pc = "running"
        /\ \E r \in {translate_next(Translation, g)} :
               <<r.t.elems, r.t.tree, r.t.gens>> # <<elems, tree, gens>>

\* Weak fairness of TranslateNext, the enabling condition of its steps
\* written as the state predicate CanAdvance: str() of the list that
\* speak() builds iterates the outer generator and, item by item, the
\* generators of the lists in it until each is exhausted or raises, so a
\* generator that can be advanced is advanced.
TranslateFair == []<>~CanAdvance \/ []<><<TranslateNext>>_vars

TranslateFairSpec ==
    TranslateRepairInit /\ [][TranslateNext]_vars /\ TranslateFair

----------------------------------------------------------------------------
(* speakregex.py: the TextList class.  The objects are numbered; an item   *)
(* of a list is a number too, a TextList object below FirstLeaf and a      *)
(* string from FirstLeaf on.  Every line of the model is shorter than the  *)
(* width of the text wrapper.                                              *)
(***************************************************************************)

FirstLeaf == 10

\* isinstance(item, TextList)
IsTextList(item) == item < FirstLeaf

\* The string that the item is.
LeafText(item) == "item" \o ToString(item)

\* The outcome of a method: the objects after it and what it returned.
RenderResult(L, r) == [L |-> L, ret |-> r]

RECURSIVE rstrip(_)
rstrip(s) ==
    IF s # "" /\ SubSeq(s, Len(s), Len(s)) = " "
    THEN rstrip(SubSeq(s, 1, Len(s) - 1))
    ELSE s

RECURSIVE Spaces(_)
Spaces(n) == IF n = 0 THEN "" ELSE " " \o Spaces(n - 1)

\* TextWrapper.wrap(line) for a line that fits the width: the blanks at its
\* end are dropped, a line of blanks gives no line at all.
wrap(line, initial_indent) ==
    IF rstrip(line) = "" THEN <<>>
    ELSE <<Spaces(initial_indent) \o rstrip(line)>>

\* Politer.pop
Politer_pop(s) ==
    LET d == Politer_dump(s)
    IN  IF d.values = <<>> THEN Result(d, None, IndexError)
        ELSE Result([d EXCEPT !.values = SubSeq(@, 1, Len(@) - 1)],
                    d.values[Len(d.values)], OK)

\* TextList.__init__
TextList_init(items, intro, outro, subord, coord) ==
    [data |-> [generator |-> items, values |-> <<>>, previous |-> None],
     intro |-> intro, outro |-> outro,
     subord |-> concat_if(subord, " "), coord |-> concat_if(coord, " "),
     indent |-> 0]

\* TextList.collapsible: the list has a first item, which is a string
collapsible_string(a2, L, self) ==
    RenderResult([L EXCEPT ![self].data = a2.self], ~a2.ret)

\* TextList.collapsible: the list has a first item, g.ret
RECURSIVE TextList_collapsible(_, _)
collapsible_item(g, L, self) ==
    IF IsTextList(g.ret)
    THEN TextList_collapsible([L EXCEPT ![self].data = g.self], g.ret)
    ELSE collapsible_string(Politer_at_least(g.self, 2), L, self)

\* TextList.collapsible: a1 is what self._data.at_least(1) gave
collapsible_at_least(a1, L, self) ==
    IF ~a1.ret THEN RenderResult([L EXCEPT ![self].data = a1.self], TRUE)
    ELSE collapsible_item(Politer_getitem(a1.self, 0), L, self)

\* TextList.collapsible
TextList_collapsible(L, self) ==
    collapsible_at_least(Politer_at_least(L[self].data, 1), L, self)

\* TextList.collapse: item is the string that the first item is or
\* collapsed into
collapse_concat(item, self) ==
    LET L2 == [item.L EXCEPT ![self].intro = concat_if(@, " ")]
    IN  RenderResult(L2, L2[self].intro \o item.ret \o L2[self].outro)

\* TextList.collapse: g is what self._data[0] gave
RECURSIVE TextList_collapse(_, _)
collapse_item(g, L, self) ==
    IF g.err # OK THEN RenderResult([L EXCEPT ![self].data = g.self], "")
    ELSE IF IsTextList(g.ret)
    THEN collapse_concat(TextList_collapse([L EXCEPT ![self].data = g.self],
                                           g.ret),
                         self)
    ELSE collapse_concat(RenderResult([L EXCEPT ![self].data = g.self],
                                      LeafText(g.ret)),
                         self)

\* TextList.collapse
TextList_collapse(L, self) ==
    collapse_item(Politer_getitem(L[self].data, 0), L, self)

\* TextList._clean
TextList_clean(L, self, line) == wrap(line, L[self].indent)

\* The lines r.ret after the lines yielded before them.
Yielded(lines, r) == RenderResult(r.L, lines \o r.ret)

RECURSIVE TextList_make_list(_, _)

\* TextList._bullet: yield from self._clean("* ", prefix, item, suffix),
\* item.ret the string that the item is or collapsed into
bullet_line(item, self, prefix, suffix) ==
    RenderResult(item.L,
                 TextList_clean(item.L, self,
                                "* " \o prefix \o item.ret \o suffix))

\* TextList._bullet of an item that is a TextList: c is what
\* item.collapsible() gave
bullet_list(c, self, item, prefix, suffix) ==
    IF ~c.ret
    THEN TextList_make_list([c.L EXCEPT ![item].intro = "* " \o prefix \o @,
                                        ![item].outro = @ \o suffix,
                                        ![item].indent = c.L[self].indent],
                            item)
    ELSE bullet_line(TextList_collapse(c.L, item), self, prefix, suffix)

\* TextList._bullet: the lines it yields
TextList_bullet(L, self, item, prefix, suffix) ==
    IF IsTextList(item)
    THEN bullet_list(TextList_collapsible(L, item), self, item, prefix,
                     suffix)
    ELSE bullet_line(RenderResult(L, LeafText(item)), self, prefix, suffix)

\* The end of the loop over popped(): prev() has put the item that failed
\* back, and the last item yielded is the previous one again.
popped_end(back, L, self, saved, lines) ==
    RenderResult([L EXCEPT ![self].data =
                               IF saved = None THEN back
                               ELSE [back EXCEPT !.previous = saved]],
                 lines)

RECURSIVE make_list_popped(_, _, _, _)

\* The body of the loop over popped() has yielded the lines b.ret for item.
popped_bullet(b, self, item, lines) ==
    make_list_popped(b.L, self, item, lines \o b.ret)

\* The loop over popped(): item has been pulled, a is what at_least(1)
\* gave after it.
popped_at_least(a, item, L, self, saved, lines) ==
    IF a.ret
    THEN popped_bullet(TextList_bullet([L EXCEPT ![self].data = a.self],
                                       self, item, L[self].subord, ","),
                       self, item, lines)
    ELSE popped_end(Politer_prev(a.self).self, L, self, saved, lines)

\* The loop over popped(): p is what next(self._data) gave.
popped_next(p, L, self, saved, lines) ==
    IF p.err = OK
    THEN popped_at_least(Politer_at_least(p.self, 1), p.ret, L, self, saved,
                         lines)
    ELSE popped_end(Politer_prev(p.self).self, L, self, saved, lines)

\* The loop of _make_list over self._data.popped(), which is
\* takewhile(lambda _: self.at_least(1)): each item pulled is yielded while
\* a value remains after it; the item that fails is put back by prev().
make_list_popped(L, self, saved, lines) ==
    popped_next(Politer_next(L[self].data), L, self, saved, lines)

\* A last item that is always joined with the subordinating conjunction.
make_list_prefix_subord(coord, subord) == subord

\* prefix = self.coord if self.coord else self.subord
make_list_prefix(coord, subord) == IF coord # "" THEN coord ELSE subord

\* TextList._make_list: last is what self._data.pop() gave
make_list_last(last, L, self, lines) ==
    LET L3 == [L EXCEPT ![self].data = last.self]
    IN  Yielded(lines,
                TextList_bullet(L3, self, last.ret,
                                make_list_prefix(L3[self].coord,
                                                 L3[self].subord),
                                L3[self].outro))

\* TextList._make_list: middle is what the loop over popped() yielded
make_list_middle(middle, self, lines) ==
    make_list_last(Politer_pop(middle.L[self].data), middle.L, self,
                   lines \o middle.ret)

\* TextList._make_list: first is what the bullet of the first item yielded
make_list_first(first, self, lines) ==
    make_list_middle(make_list_popped(first.L, self, None, <<>>), self,
                     lines \o first.ret)

\* TextList._make_list: n is what next(self._data) gave
make_list_next(n, L, self, lines) ==
    make_list_first(TextList_bullet([L EXCEPT ![self].data = n.self], self,
                                    n.ret, "", ","),
                    self, lines)

\* TextList._make_list: a2 is what self._data.at_least(2) gave
make_list_at_least(a2, L, self, lines) ==
    LET L2 == [L EXCEPT ![self].data = a2.self]
    IN  IF ~a2.ret
        THEN Yielded(lines,
                     TextList_bullet(L2, self,
                                     Politer_getitem(a2.self, 0).ret, "",
                                     L2[self].outro))
        ELSE make_list_next(Politer_next(a2.self), L2, self, lines)

\* TextList._make_list of a list that does not collapse: the intro line,
\* self.indent += 2
make_list_intro(L, self) ==
    make_list_at_least(Politer_at_least(L[self].data, 2),
                       [L EXCEPT ![self].indent = @ + 2], self,
                       IF L[self].intro # ""
                       THEN TextList_clean(L, self, L[self].intro \o ":")
                       ELSE <<>>)

\* TextList._make_list: yield self.collapse()
make_list_collapse(cc) == RenderResult(cc.L, <<cc.ret>>)

\* TextList._make_list: c is what self.collapsible() gave
make_list_collapsible(c, self) ==
    IF c.ret THEN make_list_collapse(TextList_collapse(c.L, self))
    ELSE make_list_intro(c.L, self)

\* TextList._make_list: the lines it yields
TextList_make_list(L, self) ==
    make_list_collapsible(TextList_collapsible(L, self), self)

\* TextList.__str__: output = self._clean(self.collapse())
str_collapse(cc, self) ==
    RenderResult(cc.L, TextList_clean(cc.L, self, cc.ret))

\* TextList.__str__: c is what self.collapsible() gave
str_collapsible(c, self) ==
    IF c.ret THEN str_collapse(TextList_collapse(c.L, self), self)
    ELSE TextList_make_list(c.L, self)

\* TextList.__str__: the lines it joins
TextList_str(L, self) == str_collapsible(TextList_collapsible(L, self), self)

\* The wording of the list rendered: that of speak(), of regex_in, of a
\* TextList constructed with the defaults, and one with both conjunctions.
Styles ==
    {[intro |-> "This will match", outro |-> ".", subord |-> "followed by",
      coord |-> ""],
     [intro |-> "one of the following", outro |-> "", subord |-> "",
      coord |-> "or"],
     [intro |-> "", outro |-> "", subord |-> "", coord |-> ""],
     [intro |-> "(if", outro |-> ")", subord |-> "then", coord |-> "or"]}

\* The wording of the lists in it.
NestedStyles ==
    {[intro |-> "one of", outro |-> "", subord |-> "", coord |-> "or"],
     [intro |-> "", outro |-> ")", subord |-> "then", coord |-> ""]}

\* The places of the lists 2..MaxLists: <<p, i>> is item i of list p,
\* <<0, 0>> is nowhere (the object is not constructed).
Places ==
    [2..MaxLists ->
        {<<0, 0>>} \cup ((1..MaxLists) \X (1..MaxItems))]

\* The items of list o, of length len[o]: the lists placed in it, and
\* strings everywhere else.
ItemsOf(o, len, place) ==
    [i \in 1..len[o] |->
        IF \E c \in DOMAIN place : place[c] = <<o, i>>
        THEN CHOOSE c \in DOMAIN place : place[c] = <<o, i>>
        ELSE FirstLeaf * o + i]

\* The lists form a tree below list 1.
TreeOfLists(len, place) ==
    \A c \in DOMAIN place :
        IF place[c] = <<0, 0>> THEN len[c] = 0
        ELSE /\ place[c][1] < c
             /\ IF place[c][1] = 1 THEN TRUE
                ELSE place[place[c][1]] # <<0, 0>>
             /\ place[c][2] <= len[place[c][1]]
             /\ \A d \in DOMAIN place : place[d] = place[c] => d = c

\* TextList(items, intro, outro, subord, coord) over lists of strings and
\* TextLists.
RenderInit ==
    /\ \E len \in [1..MaxLists -> 0..MaxItems], place \in Places,
          style \in Styles, nested \in [2..MaxLists -> NestedStyles] :
           /\ TreeOfLists(len, place)
           /\ \A c \in DOMAIN place :
                  place[c] = <<0, 0>> =>
                      nested[c] = CHOOSE n \in NestedStyles : TRUE
           /\ lists = [o \in 1..MaxLists |->
                          LET w == IF o = 1 THEN style ELSE nested[o]
                          IN  TextList_init(ItemsOf(o, len, place), w.intro,
                                            w.outro, w.subord, w.coord)]
    /\ lists0 = lists
    /\ rOp = "init" /\ answer = FALSE /\ output = <<>>
    /\ PoliterParked /\ TreeParked /\ TranslateParked

\* lists[1].collapsible()
DoCollapsible ==
    /\ rOp # "str"
    /\ \E r \in {TextList_collapsible(lists, 1)} :
           lists' = r.L /\ answer' = r.ret
    /\ rOp' = "collapsible"
    /\ UNCHANGED <<lists0, output, politerVars, treeVars, translateVars>>

\* str(lists[1]); answer is what its call of collapsible() gave
DoStr ==
    /\ rOp # "str"
    /\ \E r \in {TextList_str(lists, 1)} :
           lists' = r.L /\ output' = r.ret
    /\ answer' = TextList_collapsible(lists, 1).ret
    /\ rOp' = "str"
    /\ UNCHANGED <<lists0, politerVars, treeVars, translateVars>>

RenderNext == DoCollapsible \/ DoStr

RenderSpec == RenderInit /\ [][RenderNext]_vars

----------------------------------------------------------------------------
(* What the claims speak of.                                               *)

\* The values the pulls that follow return, in order, until a pull
\* reports exhaustion: next() applied to the object again and again.
RECURSIVE Drain(_)
Drain(s) ==
    LET r == Politer_next(s)
    IN  IF r.err # OK THEN <<>> ELSE <<r.ret>> \o Drain(r.self)

\* The list of the values not yet handed out: pending buffer, then source.
Remaining == values \o generator

Reverse(q) == [k \in 1..Len(q) |-> q[Len(q) + 1 - k]]

IsPrefix(p, q) == Len(p) <= Len(q) /\ SubSeq(q, 1, Len(p)) = p

\* C1 as stated: after send(v1, ..., vn) the pulls that follow return
\* v1, ..., vn in call order, and then what they would have returned
\* without the send.
C1_SendCallOrder ==
    [][op' = "send" => Drain(Self') = arg' \o Drain(Self)]_vars

\* C1 as amended: after send(v1, ..., vn) the pulls that follow return
\* vn, ..., v1 (last argument first, as the docstring of send says), and
\* then what they would have returned without the send.
C1_SendLastInFirstOut ==
    [][op' = "send" => Drain(Self') = Reverse(arg') \o Drain(Self)]_vars

\* A send of two different values onto a politer whose source is not
\* exhausted.
C1_Witness ==
    /\ op = "send" /\ Len(arg) = 2 /\ arg[1] # arg[2]
    /\ Len(values) >= Len(arg) /\ generator # <<>>

\* C2: a pull (next() on the politer, by its consumer or by takewhile)
\* takes a value from the source only when the pending buffer is empty;
\* otherwise it returns the front of the buffer, and in every state the
\* pulls that follow return the whole buffer before the first value of
\* the source.
C2_BufferBeforeSource ==
    [][/\ (op' \in {"next", "takewhile_next"} /\ generator' # generator)
            => values = <<>>
       /\ (op' = "next" /\ values # <<>>)
            => (err' = OK /\ ret' = Head(values) /\ values' = Tail(values))
       /\ Drain(Self') = values' \o generator']_vars

\* A pull that returned a pending value while the source had values left.
C2_Witness ==
    /\ op = "next" /\ err = OK /\ values # <<>> /\ generator # <<>>
    /\ previous = ret

\* The boundary of takewhile over q: the first position whose value the
\* predicate rejects, or 0 when it accepts every value.
Boundary(q, func) ==
    IF \A k \in 1..Len(q) : q[k] \in func THEN 0
    ELSE CHOOSE k \in 1..Len(q) :
             /\ q[k] \notin func
             /\ \A j \in 1..(k - 1) : q[j] \in func

C5_PrevOnlyAfterPull ==
    [][op' = "prev" =>
          IF op = "next" /\ err = OK
          THEN err' = OK
          ELSE err' = StopIteration /\ values' = values]_vars

\* C6: at_least(n), n >= 0, returns whether n values are obtainable, and
\* takes from the source only what the buffer lacks to hold n values:
\* nothing when it already holds n.
C6_AtLeastLazy ==
    [][op' = "at_least" =>
          LET n == arg'[1]
              lacks == IF Len(values) >= n THEN 0 ELSE n - Len(values)
              taken == Len(generator) - Len(generator')
          IN  /\ err' = OK
              /\ ret' = (Len(Remaining) >= n)
              /\ taken = (IF lacks <= Len(generator) THEN lacks
                          ELSE Len(generator))
              /\ values' \o generator' = Remaining]_vars

\* at_least(n) answered true from a buffer of exactly n values, n >= 2,
\* with the source not exhausted.
C6_Witness ==
    /\ op = "at_least" /\ ret = TRUE /\ arg[1] >= 2
    /\ Len(values) = arg[1] /\ generator # <<>>

\* C7 as stated: a query removes and reorders no pending value and keeps
\* the rewind value, the pulls that follow return what they would have
\* returned without it, and a query repeated with no pull, send or prev
\* in between gives the answer it gave before.
C7_QueriesFrameAndRepeat ==
    [][op' \in Queries =>
          /\ IsPrefix(values, values')
          /\ previous' = previous
          /\ Drain(Self') = Drain(Self)
          /\ (memo # <<>> /\ memo[1].op = op' /\ memo[1].arg = arg')
                => (err' = memo[1].err /\ ret' = memo[1].ret)]_vars

\* C8: len() returns the number of values the pulls that follow return
\* before exhaustion, and they return the remaining values in order.
C8_LenCountsRemaining ==
    [][op' = "len" =>
          /\ err' = OK
          /\ ret' = Len(Drain(Self'))
          /\ Drain(Self') = Remaining]_vars

\* len() after a pull, with values that came from the source and from a
\* send or a rewind.
C8_Witness ==
    /\ op = "len" /\ ret = MaxLen /\ previous # None /\ values[1] # values[2]

\* C9: politer[i], i >= 0, returns the value the (i+1)-th pull would
\* return when more than i values are obtainable, and otherwise raises
\* IndexError, which is not the error of an invalid prev(); either way
\* the pulls that follow return what they would have returned.
C9_IndexOrIndexError ==
    [][(op' = "getitem" /\ arg'[1] >= 0) =>
          LET i == arg'[1]
          IN  /\ Drain(Self') = Remaining
              /\ IsPrefix(values, values')
              /\ IF Len(Remaining) > i
                 THEN err' = OK /\ ret' = Drain(Self)[i + 1]
                 ELSE /\ err' = IndexError
                      /\ err' # Politer_prev([Self EXCEPT
                                                !.previous = None]).err]_vars

\* An index past the end of a politer that holds pending values.
C9_Witness ==
    /\ op = "getitem" /\ arg[1] >= 0 /\ err = IndexError
    /\ Len(values) >= 2 /\ generator = <<>>

\* C10 as stated: an index or a slice with a negative position gives what
\* the same index or slice gives on the list of all remaining values
\* (pending buffer, then every value left in the source).
C10_NegativeAgainstWholeList ==
    [][/\ (op' = "getitem" /\ arg'[1] < 0) =>
             /\ ret' = SeqGetitem(Remaining, arg'[1]).ret
             /\ err' = SeqGetitem(Remaining, arg'[1]).err
       /\ (/\ op' = "getslice"
           /\ \E k \in 1..2 : arg'[k] # <<>> /\ arg'[k][1] < 0) =>
             /\ err' = OK
             /\ ret' = SeqGetslice(Remaining, arg'[1], arg'[2])]_vars

----------------------------------------------------------------------------
(* The translation engine's claims.                                        *)

\* The texts of the elements ids.
Texts(ids) == [i \in DOMAIN ids |-> elems[ids[i]]]

EndsWith(s, suffix) ==
    /\ Len(s) >= Len(suffix)
    /\ SubSeq(s, Len(s) - Len(suffix) + 1, Len(s)) = suffix

\* The element the last next() took is of a kind the dictionary lacks.
UnknownTaken(o) == o.item # 0 /\ Kind(elems[o.item]) \notin translation

\* C13: an element whose kind is not in the dispatch table never aborts the
\* translation: the generator that takes it yields a string that holds the
\* raw text of the element, stays alive, and leaves the elements that
\* follow it in the stream, where its next step finds them.
C13_UnknownKindFallback ==
    [][UnknownTaken(trOp') =>
           /\ trOp'.err = OK
           /\ ~trOp'.ret.list
           /\ EndsWith(trOp'.ret.text, elems[trOp'.item])
           /\ gens'[trOp'.gen].pc = "running"
           /\ Drain(tree') = Tail(Drain(tree))]_vars

\* An unknown element was translated and elements follow it.
C13_Witness ==
    /\ UnknownTaken(trOp)
    /\ trOp.err = OK
    /\ Drain(tree) # <<>>

\* The end marker that closes the start marker at j.
Match(stream, j) ==
    CHOOSE k \in j + 1..Len(stream) :
        /\ stream[k] = "end_grouping 0"
        /\ Depth(stream, k) = Depth(stream, j) - 1
        /\ \A l \in j + 1..k - 1 : Depth(stream, l) >= Depth(stream, j)

\* The start marker of the innermost group element i lies in, an end marker
\* lying in the group it closes; 0 at the top level.
Owner(stream, i) ==
    LET open == {j \in 1..i - 1 : /\ stream[j] = "start_grouping 0"
                                  /\ Match(stream, j) >= i}
    IN  IF open = {} THEN 0 ELSE CHOOSE j \in open : \A l \in open : l <= j

\* C14: on a well-formed stream, whatever the order in which the outer and
\* the nested generators are advanced, the generator of a nested block
\* translates exactly the elements between the block's start marker and the
\* matching end marker, and the generator around it goes on with the
\* element after that end marker.
C14_NestedBlockExact ==
    WellFormed(elems) =>
        \A g \in DOMAIN gens : \A k \in DOMAIN gens[g].items :
            LET items == gens[g].items
            IN  /\ Owner(elems, items[k]) = gens[g].start
                /\ (k > 1 /\ ExpectsBlock(elems[items[k - 1]])) =>
                       items[k] = Match(elems, items[k - 1] + 1) + 1

\* The last next() dispatched an unexpected start marker: the repair ran.
Repaired(o) ==
    o.item # 0 /\ elems[o.item] = "start_grouping 0" /\ o.err = OK

RemoveAt(q, m) == SubSeq(q, 1, m - 1) \o SubSeq(q, m + 1, Len(q))

\* C15: the repair of an unexpected start marker removes that marker and
\* one end marker and puts back the elements it skipped: the stream then
\* reads as it did after the start marker, less that one end marker, the
\* skipped elements in their original order.
C15_RepairKeepsOrder ==
    [][LET rest == Tail(Drain(tree))
       IN  (/\ Repaired(trOp')
            /\ \E m \in DOMAIN rest : elems[rest[m]] = "end_grouping 0")
           => \E m \in DOMAIN rest :
                  /\ elems[rest[m]] = "end_grouping 0"
                  /\ Texts(Drain(tree')) = Texts(RemoveAt(rest, m))]_vars

\* The positions of rest that close a group opened before rest.
Closing(rest) ==
    {m \in DOMAIN rest :
        /\ elems[rest[m]] = "end_grouping 0"
        /\ Cardinality({j \in 1..m : elems[rest[j]] = "end_grouping 0"})
               = 1 + Cardinality({j \in 1..m :
                                     elems[rest[j]] = "start_grouping 0"})}

\* C16: the end marker the repair removes is the one that matches the
\* unexpected start marker, the pairs nested between them staying in the
\* stream; when no end marker matches it, no element is removed.
C16_RepairRemovesMatchingEnd ==
    [][LET rest == Tail(Drain(tree))
           closing == Closing(rest)
           kept == Range(Drain(tree'))
       IN  Repaired(trOp') =>
               IF closing = {} THEN kept = Range(rest)
               ELSE kept = Range(rest)
                              \ {rest[CHOOSE m \in closing :
                                          \A l \in closing : m <= l]}]_vars

\* The element id is a literal whose ordinal is not in the special table.
PlainLiteral(id) ==
    /\ Kind(elems[id]) = "literal"
    /\ split(elems[id])[2] \notin DOMAIN special_characters

\* The length of the longest run of literals that starts the stream ids:
\* its first element, then plain literals.
RunLength(ids) ==
    CHOOSE k \in DOMAIN ids :
        /\ \A j \in 2..k : PlainLiteral(ids[j])
        /\ k = Len(ids) \/ ~PlainLiteral(ids[k + 1])

\* C20: the literal handler merges the longest run of consecutive literals
\* whose ordinals are not in the special-character table and leaves the
\* element that ends the run as the next element of the stream; a literal
\* of the special table is not merged and gives its spelled-out phrase.
C20_LiteralRun ==
    [][(trOp'.item # 0 /\ Kind(elems[trOp'.item]) = "literal") =>
           LET ids == Drain(tree)
               ordinal == split(elems[trOp'.item])[2]
               special == ordinal \in DOMAIN special_characters
               k == IF special THEN 1 ELSE RunLength(ids)
               chars == [j \in 1..k |-> chr(int(split(elems[ids[j]])[2]))]
           IN  /\ trOp'.err = OK
               /\ Drain(tree') = SubSeq(ids, k + 1, Len(ids))
               /\ special => trOp'.ret.text = special_characters[ordinal]
               /\ (k >= 2 /\ gens[trOp'.gen].delegate = "None") =>
                      trOp'.ret.text
                          = "the characters " \o quoted(concat(chars))]_vars

\* Two literals were merged and the literal of the special table that ends
\* the run is the next element of the stream.
C20_Witness ==
    /\ trOp.item # 0 /\ elems[trOp.item] = "literal 97"
    /\ trOp.ret.text = "the characters \"ab\""
    /\ Drain(tree) # <<>>
    /\ elems[Head(Drain(tree))] = "literal 32"

\* sub occurs in s.
Contains(s, sub) ==
    \E i \in 1..Len(s) - Len(sub) + 1 : SubSeq(s, i, i + Len(sub) - 1) = sub

\* s without the first occurrence of sub.
Without(s, sub) ==
    IF ~Contains(s, sub) THEN s
    ELSE LET i == CHOOSE i \in 1..Len(s) - Len(sub) + 1 :
                      /\ SubSeq(s, i, i + Len(sub) - 1) = sub
                      /\ \A j \in 1..i - 1 :
                             SubSeq(s, j, j + Len(sub) - 1) # sub
         IN  SubSeq(s, 1, i - 1) \o SubSeq(s, i + Len(sub), Len(s))

\* The last next() dispatched a quantifier.
RepeatTaken(o) ==
    o.item # 0 /\ Kind(elems[o.item]) \in {"max_repeat", "min_repeat"}

\* The description of the one child of the quantifiers of
\* TranslateRepeatSpec.
ChildDescription ==
    IF elems[3] = "any None" THEN "any character"
    ELSE "the character \"a\""

\* The phrase of a quantifier that has a wrapper, without the marker.
RepeatPhrase(min, max) ==
    IF max >= max_match THEN ToString(min) \o " or more occurrences of"
    ELSE IF min = 0
    THEN IF max = 1 THEN "up to 1 occurrence of"
         ELSE "up to " \o ToString(max) \o " occurrences of"
    ELSE "between " \o ToString(min) \o " and " \o ToString(max)
             \o " occurrences of"

\* C19, as claimed: min == max == 1 gives the child's description, min ==
\* max > 1 'N occurrences of', then max at or above the sentinel 'N or more
\* occurrences of', then min == 0 'up to M occurrence(s) of', anything else
\* 'between N and M occurrences of'; the non-greedy marker is in the output
\* whenever the quantifier is lazy.
C19_RepeatRulesAsClaimed ==
    [][RepeatTaken(trOp') =>
           LET lexemes == split(elems[trOp'.item])
               min == int(lexemes[2])
               max == int(lexemes[3])
               lazy == lexemes[1] = "min_repeat"
               r == trOp'.ret
               said == IF r.list THEN r.intro ELSE r.text
           IN  /\ trOp'.err = OK
               /\ lazy => Contains(said, "(non-greedy)")
               /\ IF min = max /\ min = 1
                  THEN ~r.list /\ Without(r.text, " (non-greedy)")
                                     = ChildDescription
                  ELSE /\ r.list
                       /\ Without(r.intro, " (non-greedy)")
                              = IF min = max /\ min > 1
                                THEN ToString(min) \o " occurrences of"
                                ELSE RepeatPhrase(min, max)]_vars

\* C19, amended: min == max == 1 gives the child's description, any other
\* min == max 'N occurrences of', both without a marker; otherwise the
\* phrase is chosen as claimed and holds the non-greedy marker exactly when
\* the quantifier is lazy.
C19_RepeatRules ==
    [][RepeatTaken(trOp') =>
           LET lexemes == split(elems[trOp'.item])
               min == int(lexemes[2])
               max == int(lexemes[3])
               lazy == lexemes[1] = "min_repeat"
               r == trOp'.ret
           IN  /\ trOp'.err = OK
               /\ IF min = max /\ min = 1
                  THEN ~r.list /\ r.text = ChildDescription
                  ELSE IF min = max
                  THEN r.list /\ r.intro = ToString(min) \o " occurrences of"
                  ELSE /\ r.list
                       /\ Without(r.intro, " (non-greedy)")
                              = RepeatPhrase(min, max)
                       /\ lazy <=> Contains(r.intro, " (non-greedy) ")]_vars

\* A lazy quantifier without an upper limit was translated.
C19_Witness ==
    /\ RepeatTaken(trOp)
    /\ trOp.ret.intro = "0 or more (non-greedy) occurrences of"

----------------------------------------------------------------------------
\* The claims of the rendering of a TextList

\* The items that list o was constructed with.
ItemsGiven(o) == lists0[o].data.generator

\* The rule of the docstring of collapsible(): the list contains only one
\* item, and that item is either a string or itself collapsible.
RECURSIVE CollapsibleByRule(_)
CollapsibleByRule(o) ==
    /\ Len(ItemsGiven(o)) = 1
    /\ \/ ~IsTextList(ItemsGiven(o)[1])
       \/ CollapsibleByRule(ItemsGiven(o)[1])

\* C17: collapsible() answers true exactly when the list has one item and
\* that item is a string or a list that is itself collapsible; a list of two
\* or more items is never collapsible, whatever its first item is.
C17_CollapsibleRule ==
    rOp = "collapsible" => (answer = CollapsibleByRule(1))

\* A list of two or more items, which collapsible() did not take for one
\* that collapses, has been rendered.
RenderedAsList ==
    /\ rOp = "str"
    /\ ~answer
    /\ Len(ItemsGiven(1)) >= 2

\* What begins the first line of an entry of the list rendered.
Bullet == "  * "

\* The lines of the output that begin an entry of the list rendered: the
\* entries of the lists in it are indented further, and a line has lost the
\* blanks at its end.
EntryStarts ==
    {i \in 1..Len(output) : IsPrefix(Bullet, output[i] \o " ")}

\* The first and the last line of the j-th entry.
EntryFirst(j) ==
    CHOOSE i \in EntryStarts :
        Cardinality({x \in EntryStarts : x < i}) = j - 1

EntryLast(j) ==
    IF j = Cardinality(EntryStarts) THEN Len(output)
    ELSE EntryFirst(j + 1) - 1

\* The conjunction that the claim puts before item j of k, and what it
\* puts after it.
PrefixClaimed(j, k) ==
    IF j = 1 THEN ""
    ELSE IF j < k \/ lists0[1].coord = "" THEN lists0[1].subord
    ELSE lists0[1].coord

SuffixClaimed(j, k) == IF j < k THEN "," ELSE lists0[1].outro

\* Entry j is item j: a string is one line, the bullet, the prefix, the
\* string and the suffix; a list begins with the bullet and the prefix and
\* ends with the suffix.
EntryAsClaimed(j) ==
    LET k == Len(ItemsGiven(1))
        item == ItemsGiven(1)[j]
        prefix == PrefixClaimed(j, k)
        suffix == SuffixClaimed(j, k)
    IN  IF IsTextList(item)
        THEN /\ IsPrefix(rstrip(Bullet \o prefix), output[EntryFirst(j)])
             /\ EndsWith(output[EntryLast(j)], suffix)
        ELSE /\ EntryLast(j) = EntryFirst(j)
             /\ output[EntryFirst(j)] =
                    rstrip(Bullet \o prefix \o LeafText(item) \o suffix)

\* The entries are the k items in order, after the lines of head.
EntriesAsClaimed(head) ==
    /\ IsPrefix(head, output)
    /\ Cardinality(EntryStarts) = Len(ItemsGiven(1))
    /\ \A i \in 1..Len(output) : i \in EntryStarts => i > Len(head)
    /\ Len(head) + 1 \in EntryStarts
    /\ \A j \in 1..Len(ItemsGiven(1)) : EntryAsClaimed(j)

----------------------------------------------------------------------------
\* The claims of the literal handler in a character class

\* What lookup_char(ordinal) gives by the tables and the lead-in.
Described(ordinal) ==
    IF ordinal \in DOMAIN special_characters
    THEN special_characters[ordinal]
    ELSE IF ordinal \in DOMAIN unusual_characters
    THEN unusual_characters[ordinal]
    ELSE "the character \"" \o chr(int(ordinal)) \o "\""

\* The step takes a literal in the set-member context.
SetLiteralStep ==
    /\ trOp'.item # 0
    /\ Kind(elems[trOp'.item]) = "literal"
    /\ gens[trOp'.gen].delegate = "set"

\* The length of the run the step merges.
SetRunLength ==
    IF split(elems[trOp'.item])[2] \in DOMAIN special_characters THEN 1
    ELSE RunLength(Drain(tree))

\* C21 as it is stated: when the literal handler is called with the
\* set-member context and the merged run is a single literal, the fragment
\* is the bare quoted character, without the lead-in 'the character'.
C21_SetSingleLiteralBare ==
    [][(SetLiteralStep /\ SetRunLength = 1) =>
           /\ trOp'.err = OK
           /\ trOp'.ret.text
                  = "\"" \o chr(int(split(elems[trOp'.item])[2])) \o "\""]_vars

\* C21: when the literal handler is called with the set-member context and
\* the merged run is a single literal, the fragment is the one given outside
\* a set: the name of a special or unusual character, else 'the character'
\* and the quoted character; the set-member context changes only a merged
\* run of two literals or more, which is 'a "x" or "y" character'.
C21_SetSingleLiteral ==
    [][SetLiteralStep =>
           LET ids == Drain(tree)
               c(j) == "\"" \o chr(int(split(elems[ids[j]])[2])) \o "\""
           IN  /\ trOp'.err = OK
               /\ ~trOp'.ret.list
               /\ SetRunLength = 1 =>
                      trOp'.ret.text
                          = Described(split(elems[trOp'.item])[2])
               /\ SetRunLength = 2 =>
                      trOp'.ret.text
                          = "a " \o c(1) \o " or " \o c(2) \o " character"]_vars

\* A single literal of a set has been translated, an element other than a
\* literal after it.
C21_Witness ==
    /\ trOp.item # 0 /\ elems[trOp.item] = "literal 97"
    /\ gens[trOp.gen].delegate = "set"
    /\ trOp.ret.text = "the character \"a\""
    /\ Drain(tree) # <<>>
    /\ elems[Head(Drain(tree))] = "category category_digit"

----------------------------------------------------------------------------
\* The claims of close(), takewhile() and popped()

\* C22: after close() the pending buffer and the source are discarded: no
\* value that was buffered, returned before or still in the source can be
\* obtained again unless it is sent anew; a pull reports exhaustion, len()
\* is 0, and a rewind brings nothing back.
C22_CloseDiscards ==
    [][/\ op' = "close" => Remaining' = <<>>
       /\ (op = "close" /\ op' = "next") => err' = StopIteration
       /\ (op = "close" /\ op' = "len") => ret' = 0
       /\ (op = "close" /\ op' = "prev") => Remaining' = <<>>]_vars

\* C24: when takewhile(p) or takeuntil(q) has ended, also when every
\* remaining value passed the predicate and the source was exhausted
\* without a boundary value, the values it yielded followed by the values
\* then remaining in the parent are the parent's remaining values at the
\* call, each once and in order: no value already yielded is put back.
C24_TakewhileConserves ==
    tw.pc = "done" => tw.yielded \o Drain(Self) = remaining0

\* The first k and the last k values of q.
FirstOf(q, k) == SubSeq(q, 1, k)
LastOf(q, k) == SubSeq(q, Len(q) - k + 1, Len(q))

Max(a, b) == IF a >= b THEN a ELSE b
Min(a, b) == IF a <= b THEN a ELSE b

\* C25: when popped(n), called with m values remaining, has ended, it has
\* yielded the first max(0, m - n) of them in order, and the sequence holds
\* the last min(m, n) of them in order and nothing else (also when m = 0).
C25_PoppedLeavesLast ==
    (tw.pc = "done" /\ tw.name = "popped") =>
        /\ tw.yielded =
               FirstOf(remaining0, Max(0, Len(remaining0) - arg[1]))
        /\ Remaining = LastOf(remaining0, Min(Len(remaining0), arg[1]))

----------------------------------------------------------------------------
(* The claim of 'not_literal'.                                             *)

\* The block a 'not_literal X' stands for, as get_parse_tree flattens the
\* trace of a set complement.
ExplicitBlock(x) ==
    <<"in", "start_grouping 0", "negate None", "literal " \o x,
      "end_grouping 0">>

\* The translation state t with the block in place of the 'not_literal' at
\* the head of its stream.
WithExplicitBlock(t, x) ==
    LET n == Len(t.elems)
        ids == [i \in 1..5 |-> n + i]
    IN  [t EXCEPT !.elems = @ \o ExplicitBlock(x),
                  !.tree = IF t.tree.values # <<>>
                           THEN [@ EXCEPT !.values = ids \o Tail(@)]
                           ELSE [@ EXCEPT !.values = ids,
                                          !.generator = Tail(@)]]

\* e is what next() on the generator gives over the explicit block.
SameAsBlock(e, op1, tree1) ==
    /\ op1.err = e.err
    /\ op1.ret = e.ret
    /\ Drain(tree1) = Drain(e.t.tree)

\* C26: translating a 'not_literal X' element gives the fragment (or the
\* exception) that translating the block start_grouping, negate,
\* literal X, end_grouping through the handler of 'in' gives, takes no
\* element of the stream but the not_literal, and leaves the elements
\* that follow it in place and in order.
C26_NotLiteralIsBlock ==
    [][(trOp'.item # 0 /\ Kind(elems[trOp'.item]) = "not_literal") =>
           /\ SameAsBlock(
                  translate_next(
                      WithExplicitBlock(Translation,
                                        split(elems[trOp'.item])[2]),
                      trOp'.gen),
                  trOp', tree')
           /\ Drain(tree') = Tail(Drain(tree))]_vars

\* A not_literal has been translated, elements follow it.
C26_Witness ==
    /\ trOp.item # 0 /\ elems[trOp.item] = "not_literal 97"
    /\ trOp.err = OK
    /\ trOp.ret.text = "any character except the character \"a\""
    /\ Drain(tree) # <<>>
    /\ elems[Head(Drain(tree))] = "literal 98"

----------------------------------------------------------------------------
(* The claim of the items of a TextList rendered.                          *)

\* The strings below list o, in the order of the item sequences.
RECURSIVE Leaves(_)
RECURSIVE LeavesFrom(_, _)
LeavesFrom(items, i) ==
    IF i > Len(items) THEN <<>>
    ELSE (IF IsTextList(items[i]) THEN Leaves(items[i])
          ELSE <<LeafText(items[i])>>) \o LeavesFrom(items, i + 1)

Leaves(o) == LeavesFrom(ItemsGiven(o), 1)

\* The text of the lines, one after the other.
RECURSIVE TextOf(_)
TextOf(lines) ==
    IF lines = <<>> THEN "" ELSE Head(lines) \o " " \o TextOf(Tail(lines))

\* The item strings that occur in the text s from position i on, in the
\* order they occur: every one is "item" and the two digits of its number.
RECURSIVE ItemsIn(_, _)
ItemsIn(s, i) ==
    IF i + 5 > Len(s) THEN <<>>
    ELSE IF SubSeq(s, i, i + 3) = "item"
    THEN <<SubSeq(s, i, i + 5)>> \o ItemsIn(s, i + 6)
    ELSE ItemsIn(s, i + 1)

\* C27: the text that str() gives for a TextList holds every string of its
\* item sequence and of the item sequences of the lists in it exactly once
\* and in the order of the sequences, whether the list collapses or is
\* rendered as bullets.
C27_EveryItemOnce ==
    rOp = "str" => ItemsIn(TextOf(output), 1) = Leaves(1)

----------------------------------------------------------------------------
(* The claim of termination.                                               *)

\* No generator is left to advance: each is exhausted or has raised.
AllEnded == \A g \in DOMAIN gens : gens[g].pc # "running"

\* The fragment of the repair.
Warning == "(warning, some elements may not appear correctly grouped)"

\* C23: the translation of a finite element stream, advanced as its
\* rendering advances it, comes to an end: every translate() generator is
\* exhausted or has raised after finitely many steps, also when the stream
\* holds unexpected start markers, whose skipped elements the repair sends
\* back to the stream for the caller to take again.
C23_Terminates == <>AllEnded

\* The translation has ended after a repair: the outer generator gave the
\* warning for the start marker and then took the skipped literal again.
C23_Witness ==
    /\ AllEnded
    /\ Len(gens[1].out) >= 2
    /\ gens[1].out[1].text = Warning
    /\ gens[1].out[2].text = "the character \"a\""
    /\ Len(gens[1].items) >= 2
    /\ elems[gens[1].items[1]] = "start_grouping 0"
    /\ elems[gens[1].items[2]] = "literal 97"

============================================================================
